---- MODULE Spec2Model ----
(***************************************************************************)
(* Scoring and benchmarking engine of the St. Galler management analysis   *)
(* (StGallerFrameworkAnalyzer in st_galler_app.py) together with a caller  *)
(* that prepares a ratings mapping and invokes the engine's operations.    *)
(*                                                                         *)
(* Numbers.  The engine computes with float64.  Here every real number is  *)
(* a fixed-point integer counting units of 1/SCALE.  SCALE is divisible by *)
(* 3, 4, 9, 12 and 36, so every mean the engine takes of integer ratings   *)
(* (and every mean of such means) is exact; it is divisible by 7 and by    *)
(* 20, so x/3.5 of an exact value and the decimals 0.7, 0.75, 0.8 are      *)
(* exact.  Only the square root inside np.std is rounded (downwards, to    *)
(* the next multiple of 1/SCALE).                                          *)
(***************************************************************************)
EXTENDS Integers, Sequences, FiniteSets, TLC

VARIABLES theoretische_grundlagen, empirische_benchmarks,  \* the engine's tables
          antworten, geaendert, ergebnis,                  \* a caller, its last call
          session, instanzen, regler, lauf,                \* the Streamlit session
          threads, frames                                  \* concurrent callers

vars == <<theoretische_grundlagen, empirische_benchmarks, antworten, geaendert, ergebnis,
          session, instanzen, regler, lauf, threads, frames>>

(***************************************************************************)
(* Fixed-point arithmetic                                                  *)
(***************************************************************************)
SCALE == 36 * 35

\* the float value of the integer rating r
Fix(r) == r * SCALE

\* the decimal literal n/d (0.7 is Dez(7, 10))
Dez(n, d) == (n * SCALE) \div d

RECURSIVE IsqrtBetween(_, _, _)
\* the largest r in lo..hi with r*r <= x (binary search)
IsqrtBetween(x, lo, hi) ==
    IF lo >= hi THEN lo
    ELSE LET mid == (lo + hi + 1) \div 2
         IN IF mid * mid <= x THEN IsqrtBetween(x, mid, hi)
                              ELSE IsqrtBetween(x, lo, mid - 1)

\* floor of the square root of x >= 0
Isqrt(x) == IsqrtBetween(x, 0, 46340)

RECURSIVE SeqSum(_)
SeqSum(xs) == IF xs = << >> THEN 0 ELSE Head(xs) + SeqSum(Tail(xs))

(***************************************************************************)
(* Python and numpy primitives the engine uses                             *)
(***************************************************************************)
\* the empty dict {}
EmptyDict == [k \in {} |-> 0]

\* d[k]: raises KeyError when k is absent
DictGet_strict(d, k, default) ==
    IF k \in DOMAIN d THEN [raised |-> FALSE, val |-> d[k]]
                      ELSE [raised |-> TRUE, val |-> default]

\* d.get(k, default): never raises
DictGet(d, k, default) ==
    IF k \in DOMAIN d THEN [raised |-> FALSE, val |-> d[k]]
                      ELSE [raised |-> FALSE, val |-> default]

\* a wrong lookup: d.pop(k, default) takes the entry out of the dict
DictNachGet_pop(d, k) == [j \in DOMAIN d \ {k} |-> d[j]]

\* the dict d after d.get(k, default): the lookup leaves it as it is
DictNachGet(d, k) == d

RECURSIVE NachLookups(_, _)
\* the dict d after the lookups of keys, one after the other
NachLookups(d, keys) ==
    IF keys = << >> THEN d ELSE NachLookups(DictNachGet(d, Head(keys)), Tail(keys))

\* the outcome of a call that raised; a result that was returned carries
\* raised = FALSE next to the fields of the returned dict
Raise == [raised |-> TRUE]

\* np.mean of a non-empty list of floats
np_mean(xs) == SeqSum(xs) \div Len(xs)

\* a wrong np.std: root mean square, the mean is not subtracted
np_std_rms(xs) == Isqrt(np_mean([i \in 1..Len(xs) |-> xs[i] * xs[i]]))

\* a wrong np.std: the sample standard deviation (ddof = 1)
np_std_stichprobe(xs) ==
    LET m == np_mean(xs)
    IN Isqrt(SeqSum([i \in 1..Len(xs) |-> (xs[i] - m) * (xs[i] - m)]) \div (Len(xs) - 1))

\* a wrong np.std: the spread around the first element instead of the mean
np_std_um_erstes(xs) ==
    Isqrt(np_mean([i \in 1..Len(xs) |-> (xs[i] - xs[1]) * (xs[i] - xs[1])]))

\* np.std of a non-empty list of floats: population standard deviation
np_std(xs) ==
    LET m == np_mean(xs)
    IN Isqrt(np_mean([i \in 1..Len(xs) |-> (xs[i] - m) * (xs[i] - m)]))

RECURSIVE PyMaxFrom(_, _, _, _)
PyMaxFrom(keys, f, i, best) ==
    IF i > Len(keys) THEN best
    ELSE PyMaxFrom(keys, f, i + 1, IF f[keys[i]] > f[best] THEN keys[i] ELSE best)

\* a wrong max: no key is selected when the maximum is not unique
py_max_eindeutig(keys, f) ==
    LET best == PyMaxFrom(keys, f, 2, keys[1])
    IN IF \E i \in 1..Len(keys) : keys[i] # best /\ f[keys[i]] = f[best]
       THEN "ausgeglichen" ELSE best

\* a wrong max: the last maximal key wins
py_max_last(keys, f) ==
    LET m == CHOOSE v \in {f[keys[i]] : i \in 1..Len(keys)} :
                 \A j \in 1..Len(keys) : f[keys[j]] <= v
        i == CHOOSE i \in 1..Len(keys) :
                 f[keys[i]] = m /\ \A j \in (i + 1)..Len(keys) : f[keys[j]] # m
    IN keys[i]

\* max(d, key=d.get) for a dict d with insertion order keys: the first
\* key whose value no later key exceeds strictly
py_max(keys, f) == PyMaxFrom(keys, f, 2, keys[1])

RECURSIVE PyMinFrom(_, _, _, _)
PyMinFrom(keys, f, i, best) ==
    IF i > Len(keys) THEN best
    ELSE PyMinFrom(keys, f, i + 1, IF f[keys[i]] < f[best] THEN keys[i] ELSE best)

\* a wrong min: it selects as max does
py_min_wie_max(keys, f) == PyMaxFrom(keys, f, 2, keys[1])

\* min(d, key=d.get)
py_min(keys, f) == PyMinFrom(keys, f, 2, keys[1])

\* list(d.values()) for a dict d with insertion order keys
DictValues(keys, f) == [i \in 1..Len(keys) |-> f[keys[i]]]

(***************************************************************************)
(* Indicator vocabulary                                                    *)
(***************************************************************************)
normativ_keys == <<"wertekongruenz", "sinnstiftung", "identitaetsbeitrag", "legitimitaet">>
strategisch_keys == <<"wettbewerbsvorteil", "marktrelevanz", "ressourcenpassung", "zukunftsfaehigkeit">>
\* a wrong key list: the first key is one of the order-element indicators
operativ_keys_verwechselt == <<"prozessstandardisierung", "ressourcenoptimierung", "qualitaetssicherung", "skalierbarkeit">>
operativ_keys == <<"prozesseffizienz", "ressourcenoptimierung", "qualitaetssicherung", "skalierbarkeit">>

kultur_keys == <<"wertekonsens", "verhaltensnormen", "gemeinschaftsgefuehl">>
strukturen_keys == <<"rollenklaerung", "entscheidungskompetenz", "koordinationsmechanismen">>
prozesse_keys == <<"prozessstandardisierung", "entscheidungsgeschwindigkeit", "kontinuierliche_verbesserung">>
technologien_keys == <<"systemunterstuetzung", "digitalisierungsgrad", "datennutzung">>

reflexion_keys == <<"erfahrungsauswertung", "feedback_kultur", "lernbereitschaft">>
innovation_keys == <<"kreativitaetsfoerderung", "experimentierfreudigkeit", "veraenderungsbereitschaft">>
transformation_keys == <<"anpassungsflexibilitaet", "umstrukturierungskompetenz", "zukunftsgestaltung">>

umwelt_keys == <<"marktbeobachtung", "trendfruchterkennung", "stakeholder_dialog">>
anpassung_keys == <<"reaktionsgeschwindigkeit", "aenderungsmanagement", "ressourcenflexibilitaet">>
resilienz_keys == <<"krisenresistenz", "ausfallsicherheit", "erneuerungsfaehigkeit">>

\* insertion order of the three scores dicts
perspektiven_order == <<"normativ", "strategisch", "operativ">>
ordnungs_order == <<"kultur", "strukturen", "prozesse", "technologien">>
entwicklungs_order == <<"reflexion", "innovation", "transformation">>

\* the keys the four input forms put into the mapping they submit
ManagementKeys ==
    {"wertekongruenz", "sinnstiftung", "identitaetsbeitrag", "legitimitaet",
     "wettbewerbsvorteil", "marktrelevanz", "ressourcenpassung", "zukunftsfaehigkeit",
     "prozesseffizienz", "ressourcenoptimierung", "qualitaetssicherung", "skalierbarkeit"}
OrdnungsKeys ==
    {"wertekonsens", "verhaltensnormen", "gemeinschaftsgefuehl",
     "rollenklaerung", "entscheidungskompetenz", "koordinationsmechanismen",
     "prozessstandardisierung", "entscheidungsgeschwindigkeit", "kontinuierliche_verbesserung",
     "systemunterstuetzung", "digitalisierungsgrad", "datennutzung"}
EntwicklungsKeys ==
    {"erfahrungsauswertung", "feedback_kultur", "lernbereitschaft",
     "kreativitaetsfoerderung", "experimentierfreudigkeit", "veraenderungsbereitschaft",
     "anpassungsflexibilitaet", "umstrukturierungskompetenz", "zukunftsgestaltung"}
SystemischKeys ==
    {"marktbeobachtung", "trendfruchterkennung", "stakeholder_dialog",
     "reaktionsgeschwindigkeit", "aenderungsmanagement", "ressourcenflexibilitaet",
     "krisenresistenz", "ausfallsicherheit", "erneuerungsfaehigkeit"}

\* the keys of default_antworten
IndikatorKeys == ManagementKeys \cup OrdnungsKeys \cup EntwicklungsKeys \cup SystemischKeys

(***************************************************************************)
(* Reference tables                                                        *)
(***************************************************************************)
lade_theoretische_grundlagen ==
    [management_perspektiven |->
        [normativ    |-> [referenz |-> "St. Galler Management Modell (2019), S. 45-68"],
         strategisch |-> [referenz |-> "St. Galler Management Modell (2019), S. 69-92"],
         operativ    |-> [referenz |-> "St. Galler Management Modell (2019), S. 93-116"]],
     ordnungsmomente |->
        [kultur       |-> [referenz |-> "St. Galler Management Modell (2019), S. 117-140"],
         strukturen   |-> [referenz |-> "St. Galler Management Modell (2019), S. 141-164"],
         prozesse     |-> [referenz |-> "St. Galler Management Modell (2019), S. 165-188"],
         technologien |-> [referenz |-> "St. Galler Management Modell (2019), S. 189-212"]]]

benchmark_perspektiven_balance ==
    [optimal |-> Dez(8, 10),
     studie  |-> "Gomez & Weber (2020) - Balanced Management Performance",
     befund  |-> "Unternehmen mit ausgeglichenen Perspektiven zeigen 25% höhere Gesamtperformance"]

benchmark_ordnungsmomente_kohaerenz ==
    [optimal |-> Dez(75, 100),
     studie  |-> "Rüegg-Stürm (2019) - Organizational Coherence",
     befund  |-> "Kohärente Ordnungsmomente reduzieren Reibungsverluste um 40%"]

benchmark_umwelt_sensitivitaet ==
    [optimal |-> Dez(7, 10),
     studie  |-> "Ansoff & Sullivan (2021) - Environmental Scanning",
     befund  |-> "Hohe Umweltwahrnehmung korreliert mit 30% besserer Anpassungsfähigkeit"]

BenchmarkKeys == {"perspektiven_balance", "ordnungsmomente_kohärenz", "umwelt_sensitivität"}

lade_empirische_benchmarks ==
    [k \in BenchmarkKeys |->
        CASE k = "perspektiven_balance" -> benchmark_perspektiven_balance
          [] k = "ordnungsmomente_kohärenz" -> benchmark_ordnungsmomente_kohaerenz
          [] k = "umwelt_sensitivität" -> benchmark_umwelt_sensitivitaet]

(***************************************************************************)
(* Benchmark comparator                                                    *)
(***************************************************************************)
\* a wrong comparator: equality counts as above
vergleiche_mit_benchmarks_ge(benchmarks, scores, benchmark_key, aktueller_wert) ==
    LET benchmark == DictGet(benchmarks, benchmark_key, EmptyDict)
        optimal_wert == DictGet(benchmark.val, "optimal", Dez(7, 10))
        studie == DictGet(benchmark.val, "studie", "")
        befund == DictGet(benchmark.val, "befund", "")
    IN [raised |-> FALSE,
        aktueller_wert |-> aktueller_wert,
        optimaler_benchmark |-> optimal_wert.val,
        abweichung |-> aktueller_wert - optimal_wert.val,
        interpretation |-> IF aktueller_wert >= optimal_wert.val
                           THEN "überdurchschnittlich" ELSE "unterdurchschnittlich",
        studie |-> studie.val,
        empirischer_befund |-> befund.val]

\* StGallerFrameworkAnalyzer._vergleiche_mit_benchmarks
vergleiche_mit_benchmarks(benchmarks, scores, benchmark_key, aktueller_wert) ==
    LET benchmark == DictGet(benchmarks, benchmark_key, EmptyDict)
        optimal_wert == DictGet(benchmark.val, "optimal", Dez(7, 10))
        studie == DictGet(benchmark.val, "studie", "")
        befund == DictGet(benchmark.val, "befund", "")
    IN IF benchmark.raised \/ optimal_wert.raised \/ studie.raised \/ befund.raised
       THEN Raise
       ELSE [raised |-> FALSE,
             aktueller_wert |-> aktueller_wert,
             optimaler_benchmark |-> optimal_wert.val,
             abweichung |-> aktueller_wert - optimal_wert.val,
             interpretation |-> IF aktueller_wert > optimal_wert.val
                                THEN "überdurchschnittlich" ELSE "unterdurchschnittlich",
             studie |-> studie.val,
             empirischer_befund |-> befund.val]

(***************************************************************************)
(* Dimension aggregators                                                   *)
(***************************************************************************)
\* a wrong lookup: a missing indicator counts as the scale's midpoint
Indikatoren_mitte(antw, keys) == [i \in 1..Len(keys) |-> DictGet(antw, keys[i], 4)]

\* a wrong lookup: antworten[k], which raises for a missing indicator
Indikatoren_strict(antw, keys) == [i \in 1..Len(keys) |-> DictGet_strict(antw, keys[i], 0)]

\* [antworten.get(k, 0) for k in keys]: one lookup outcome per indicator
Indikatoren(antw, keys) == [i \in 1..Len(keys) |-> DictGet(antw, keys[i], 0)]

\* a lookup of the list raised
AnyRaised(lookups) == \E i \in 1..Len(lookups) : lookups[i].raised

\* the looked-up ratings as floats
Floats(lookups) == [i \in 1..Len(lookups) |-> Fix(lookups[i].val)]

\* a wrong index: the spread is divided by 3 instead of 3.5
Komposit_durch_drei(score_list) == SCALE - np_std(score_list) \div 3

\* 1 - (np.std(scores) / 3.5)
Komposit(score_list) == SCALE - (np_std(score_list) * 2) \div 7

\* StGallerFrameworkAnalyzer.analysiere_management_perspektiven
analysiere_management_perspektiven(benchmarks, antw) ==
    LET normativ_indikatoren == Indikatoren(antw, normativ_keys)
        strategisch_indikatoren == Indikatoren(antw, strategisch_keys)
        operativ_indikatoren == Indikatoren(antw, operativ_keys)
        scores == [normativ    |-> np_mean(Floats(normativ_indikatoren)),
                   strategisch |-> np_mean(Floats(strategisch_indikatoren)),
                   operativ    |-> np_mean(Floats(operativ_indikatoren))]
        perspektiven_scores == DictValues(perspektiven_order, scores)
        balance == Komposit(perspektiven_scores)
        vergleich == vergleiche_mit_benchmarks(benchmarks, scores, "perspektiven_balance", balance)
    IN IF \/ AnyRaised(normativ_indikatoren) \/ AnyRaised(strategisch_indikatoren)
          \/ AnyRaised(operativ_indikatoren)
       THEN Raise
       ELSE IF vergleich.raised THEN Raise
       ELSE [raised |-> FALSE,
             scores |-> scores,
             balance |-> balance,
             dominante_perspektive |-> py_max(perspektiven_order, scores),
             empirischer_vergleich |-> vergleich]

\* StGallerFrameworkAnalyzer.analysiere_ordnungsmomente
analysiere_ordnungsmomente(benchmarks, antw) ==
    LET kultur_indikatoren == Indikatoren(antw, kultur_keys)
        strukturen_indikatoren == Indikatoren(antw, strukturen_keys)
        prozesse_indikatoren == Indikatoren(antw, prozesse_keys)
        technologien_indikatoren == Indikatoren(antw, technologien_keys)
        scores == [kultur       |-> np_mean(Floats(kultur_indikatoren)),
                   strukturen   |-> np_mean(Floats(strukturen_indikatoren)),
                   prozesse     |-> np_mean(Floats(prozesse_indikatoren)),
                   technologien |-> np_mean(Floats(technologien_indikatoren))]
        ordnungs_scores == DictValues(ordnungs_order, scores)
        kohaerenz == Komposit(ordnungs_scores)
        vergleich == vergleiche_mit_benchmarks(benchmarks, scores, "ordnungsmomente_kohärenz", kohaerenz)
    IN IF \/ AnyRaised(kultur_indikatoren) \/ AnyRaised(strukturen_indikatoren)
          \/ AnyRaised(prozesse_indikatoren) \/ AnyRaised(technologien_indikatoren)
       THEN Raise
       ELSE IF vergleich.raised THEN Raise
       ELSE [raised |-> FALSE,
             scores |-> scores,
             kohaerenz |-> kohaerenz,
             schwaechstes_ordnungselement |-> py_min(ordnungs_order, scores),
             staerkstes_ordnungselement |-> py_max(ordnungs_order, scores),
             empirischer_vergleich |-> vergleich]

\* the profile labels of _bestimme_entwicklungs_profil
profile ==
    [k \in {"reflexion", "innovation", "transformation"} |->
        CASE k = "reflexion" -> "Lernende Organisation"
          [] k = "innovation" -> "Innovative Organisation"
          [] k = "transformation" -> "Transformative Organisation"]

\* a wrong profile: the fallback label when the maximum is not unique
bestimme_entwicklungs_profil_ausgeglichen(scores) ==
    LET max_dimension == py_max(entwicklungs_order, scores)
    IN IF \E k \in DOMAIN profile : k # max_dimension /\ scores[k] = scores[max_dimension]
       THEN [raised |-> FALSE, val |-> "Ausgeglichene Organisation"]
       ELSE DictGet(profile, max_dimension, "Ausgeglichene Organisation")

\* StGallerFrameworkAnalyzer._bestimme_entwicklungs_profil
bestimme_entwicklungs_profil(scores) ==
    LET max_dimension == py_max(entwicklungs_order, scores)
    IN DictGet(profile, max_dimension, "Ausgeglichene Organisation")

\* StGallerFrameworkAnalyzer.analysiere_entwicklungsperspektiven
analysiere_entwicklungsperspektiven(antw) ==
    LET reflexion_indikatoren == Indikatoren(antw, reflexion_keys)
        innovation_indikatoren == Indikatoren(antw, innovation_keys)
        transformation_indikatoren == Indikatoren(antw, transformation_keys)
        scores == [reflexion      |-> np_mean(Floats(reflexion_indikatoren)),
                   innovation     |-> np_mean(Floats(innovation_indikatoren)),
                   transformation |-> np_mean(Floats(transformation_indikatoren))]
        profil == bestimme_entwicklungs_profil(scores)
    IN IF \/ AnyRaised(reflexion_indikatoren) \/ AnyRaised(innovation_indikatoren)
          \/ AnyRaised(transformation_indikatoren)
       THEN Raise
       ELSE IF profil.raised THEN Raise
       ELSE [raised |-> FALSE,
             scores |-> scores,
             entwicklungs_profil |-> profil.val,
             anpassungs_faehigkeit |-> np_mean(DictValues(entwicklungs_order, scores))]

\* a wrong systemic analysis: the overall health is what is benchmarked
analysiere_systemische_eigenschaften_gesundheit(benchmarks, antw) ==
    LET umwelt_indikatoren == Indikatoren(antw, umwelt_keys)
        anpassung_indikatoren == Indikatoren(antw, anpassung_keys)
        resilienz_indikatoren == Indikatoren(antw, resilienz_keys)
        umwelt_sensitivitaet == np_mean(Floats(umwelt_indikatoren))
        anpassungs_faehigkeit == np_mean(Floats(anpassung_indikatoren))
        widerstands_faehigkeit == np_mean(Floats(resilienz_indikatoren))
        gesundheit == np_mean(<<umwelt_sensitivitaet, anpassungs_faehigkeit,
                                widerstands_faehigkeit>>)
        vergleich == vergleiche_mit_benchmarks(benchmarks, [umwelt |-> umwelt_sensitivitaet],
                                               "umwelt_sensitivitaet", gesundheit)
    IN IF \/ AnyRaised(umwelt_indikatoren) \/ AnyRaised(anpassung_indikatoren)
          \/ AnyRaised(resilienz_indikatoren)
       THEN Raise
       ELSE IF vergleich.raised THEN Raise
       ELSE [raised |-> FALSE,
             umwelt_sensitivitaet |-> umwelt_sensitivitaet,
             anpassungs_faehigkeit |-> anpassungs_faehigkeit,
             widerstands_faehigkeit |-> widerstands_faehigkeit,
             systemische_gesundheit |-> gesundheit,
             empirischer_vergleich |-> vergleich]

\* StGallerFrameworkAnalyzer.analysiere_systemische_eigenschaften
analysiere_systemische_eigenschaften(benchmarks, antw) ==
    LET umwelt_indikatoren == Indikatoren(antw, umwelt_keys)
        anpassung_indikatoren == Indikatoren(antw, anpassung_keys)
        resilienz_indikatoren == Indikatoren(antw, resilienz_keys)
        umwelt_sensitivitaet == np_mean(Floats(umwelt_indikatoren))
        anpassungs_faehigkeit == np_mean(Floats(anpassung_indikatoren))
        widerstands_faehigkeit == np_mean(Floats(resilienz_indikatoren))
        vergleich == vergleiche_mit_benchmarks(benchmarks, [umwelt |-> umwelt_sensitivitaet],
                                               "umwelt_sensitivitaet", umwelt_sensitivitaet)
    IN IF \/ AnyRaised(umwelt_indikatoren) \/ AnyRaised(anpassung_indikatoren)
          \/ AnyRaised(resilienz_indikatoren)
       THEN Raise
       ELSE IF vergleich.raised THEN Raise
       ELSE [raised |-> FALSE,
             umwelt_sensitivitaet |-> umwelt_sensitivitaet,
             anpassungs_faehigkeit |-> anpassungs_faehigkeit,
             widerstands_faehigkeit |-> widerstands_faehigkeit,
             systemische_gesundheit |-> np_mean(<<umwelt_sensitivitaet, anpassungs_faehigkeit,
                                                  widerstands_faehigkeit>>),
             empirischer_vergleich |-> vergleich]

(***************************************************************************)
(* Orchestrator                                                            *)
(***************************************************************************)
\* a wrong record: the last citation is missing
theoretische_referenzen_drei ==
    <<"Rüegg-Stürm, J. & Grand, S. (2019). Das St. Galler Management Modell",
      "Gomez, P. & Weber, B. (2020). Strategic Management",
      "Mintzberg, H. & Westley, F. (2021). Organizational Learning">>

\* the citations of durchfuehr_komplette_analyse
theoretische_referenzen_literal ==
    <<"Rüegg-Stürm, J. & Grand, S. (2019). Das St. Galler Management Modell",
      "Gomez, P. & Weber, B. (2020). Strategic Management",
      "Mintzberg, H. & Westley, F. (2021). Organizational Learning",
      "Luhmann, N. (2018). Social Systems and Management">>

\* a wrong record: anpassungs_fähigkeit is taken from the development
\* analysis, whose result has a field of the same name
StGallerAnalyseErgebnis_verwechselt(mp, om, ep, se) ==
    [raised |-> FALSE,
     normativ_score |-> mp.scores.normativ,
     strategisch_score |-> mp.scores.strategisch,
     operativ_score |-> mp.scores.operativ,
     perspektiven_balance |-> mp.balance,
     kultur_score |-> om.scores.kultur,
     strukturen_score |-> om.scores.strukturen,
     prozesse_score |-> om.scores.prozesse,
     technologien_score |-> om.scores.technologien,
     ordnungsmomente_kohaerenz |-> om.kohaerenz,
     reflexions_faehigkeit |-> ep.scores.reflexion,
     innovations_faehigkeit |-> ep.scores.innovation,
     transformations_faehigkeit |-> ep.scores.transformation,
     umwelt_sensitivitaet |-> se.umwelt_sensitivitaet,
     anpassungs_faehigkeit |-> ep.anpassungs_faehigkeit,
     widerstands_faehigkeit |-> se.widerstands_faehigkeit,
     theoretische_referenzen |-> theoretische_referenzen_literal,
     empirische_indikatoren |-> EmptyDict]

\* the record StGallerAnalyseErgebnis built from the four aggregator results
StGallerAnalyseErgebnis(mp, om, ep, se) ==
    [raised |-> FALSE,
     normativ_score |-> mp.scores.normativ,
     strategisch_score |-> mp.scores.strategisch,
     operativ_score |-> mp.scores.operativ,
     perspektiven_balance |-> mp.balance,
     kultur_score |-> om.scores.kultur,
     strukturen_score |-> om.scores.strukturen,
     prozesse_score |-> om.scores.prozesse,
     technologien_score |-> om.scores.technologien,
     ordnungsmomente_kohaerenz |-> om.kohaerenz,
     reflexions_faehigkeit |-> ep.scores.reflexion,
     innovations_faehigkeit |-> ep.scores.innovation,
     transformations_faehigkeit |-> ep.scores.transformation,
     umwelt_sensitivitaet |-> se.umwelt_sensitivitaet,
     anpassungs_faehigkeit |-> se.anpassungs_faehigkeit,
     widerstands_faehigkeit |-> se.widerstands_faehigkeit,
     theoretische_referenzen |-> theoretische_referenzen_literal,
     empirische_indikatoren |-> EmptyDict]

\* StGallerFrameworkAnalyzer.durchfuehr_komplette_analyse
durchfuehr_komplette_analyse(benchmarks, antw) ==
    LET management_perspektiven == analysiere_management_perspektiven(benchmarks, antw)
        ordnungsmomente == analysiere_ordnungsmomente(benchmarks, antw)
        entwicklungsperspektiven == analysiere_entwicklungsperspektiven(antw)
        systemische_eigenschaften == analysiere_systemische_eigenschaften(benchmarks, antw)
    IN IF \/ management_perspektiven.raised \/ ordnungsmomente.raised
          \/ entwicklungsperspektiven.raised \/ systemische_eigenschaften.raised
       THEN Raise
       ELSE StGallerAnalyseErgebnis(management_perspektiven, ordnungsmomente,
                                    entwicklungsperspektiven, systemische_eigenschaften)

(***************************************************************************)
(* The caller: it takes a ratings mapping, changes a few entries and then  *)
(* calls operations of one engine instance on it.                          *)
(***************************************************************************)
\* slider range of the input forms
RatingMin == 1
RatingMax == 7

\* number of keys of its mapping the caller may touch
MaxEdits == 1

\* keys outside the indicator vocabulary
ExtraKeys == {"foo", "kommentar"}

AllKeys == IndikatorKeys \cup ExtraKeys

\* every indicator at the same value v
Einheitlich(v) == [k \in IndikatorKeys |-> v]

\* the mappings a caller starts with: nothing rated, or every indicator at
\* one value of the scale
Grundmappings == {EmptyDict} \cup {Einheitlich(v) : v \in RatingMin..RatingMax}

\* antw[k] = v
DictSet(antw, k, v) == [j \in DOMAIN antw \cup {k} |-> IF j = k THEN v ELSE antw[j]]

\* del antw[k]
DictDel(antw, k) == [j \in DOMAIN antw \ {k} |-> antw[j]]

\* no call has been made on the current mapping
Keins == [op |-> "keins"]

\* the benchmark keys and values a caller hands to the comparator directly
VergleichKeys == BenchmarkKeys \cup {"umwelt_sensitivitaet", "foo"}
VergleichWerte == {Dez(n, 20) : n \in 0..40}

\* the indicator keys an operation looks up in the mapping, in order
GeleseneKeys(op) ==
    CASE op = "management_perspektiven" -> normativ_keys \o strategisch_keys \o operativ_keys
      [] op = "ordnungsmomente" ->
            kultur_keys \o strukturen_keys \o prozesse_keys \o technologien_keys
      [] op = "entwicklungsperspektiven" ->
            reflexion_keys \o innovation_keys \o transformation_keys
      [] op = "systemische_eigenschaften" -> umwelt_keys \o anpassung_keys \o resilienz_keys
      [] op = "komplette_analyse" ->
            normativ_keys \o strategisch_keys \o operativ_keys
            \o kultur_keys \o strukturen_keys \o prozesse_keys \o technologien_keys
            \o reflexion_keys \o innovation_keys \o transformation_keys
            \o umwelt_keys \o anpassung_keys \o resilienz_keys

\* the benchmark keys an operation looks up in the benchmark table, in order
GeleseneBenchmarks(op) ==
    CASE op = "management_perspektiven" -> <<"perspektiven_balance">>
      [] op = "ordnungsmomente" -> <<"ordnungsmomente_kohärenz">>
      [] op = "entwicklungsperspektiven" -> << >>
      [] op = "systemische_eigenschaften" -> <<"umwelt_sensitivitaet">>
      [] op = "komplette_analyse" ->
            <<"perspektiven_balance", "ordnungsmomente_kohärenz", "umwelt_sensitivitaet">>

\* what a call of op leaves behind in the caller's mapping and in the
\* engine: the methods assign to local names only
Hinterlaesst(op) ==
    /\ antworten' = NachLookups(antworten, GeleseneKeys(op))
    /\ empirische_benchmarks' = NachLookups(empirische_benchmarks, GeleseneBenchmarks(op))
    /\ UNCHANGED theoretische_grundlagen

\* no session and no concurrent callers
OhneApp == session = EmptyDict /\ instanzen = 1 /\ regler = EmptyDict /\ lauf = "bereit"
OhneThreads == threads = << >> /\ frames = << >>
NurAufrufer == UNCHANGED <<session, instanzen, regler, lauf, threads, frames>>

Init ==
    /\ theoretische_grundlagen = lade_theoretische_grundlagen
    /\ empirische_benchmarks = lade_empirische_benchmarks
    /\ antworten \in Grundmappings
    /\ geaendert = {}
    /\ ergebnis = Keins
    /\ OhneApp /\ OhneThreads

EngineUnchanged == UNCHANGED <<theoretische_grundlagen, empirische_benchmarks>>

\* the caller rates indicator (or writes extra key) k; it prepares its
\* mapping before it calls the engine and touches at most MaxEdits keys
SetzeAntwort(k, v) ==
    /\ ergebnis = Keins
    /\ Cardinality(geaendert \cup {k}) <= MaxEdits
    /\ antworten' = DictSet(antworten, k, v)
    /\ geaendert' = geaendert \cup {k}
    /\ UNCHANGED ergebnis
    /\ EngineUnchanged /\ NurAufrufer

\* the caller removes key k from its mapping
EntferneAntwort(k) ==
    /\ ergebnis = Keins
    /\ k \in DOMAIN antworten
    /\ Cardinality(geaendert \cup {k}) <= MaxEdits
    /\ antworten' = DictDel(antworten, k)
    /\ geaendert' = geaendert \cup {k}
    /\ UNCHANGED ergebnis
    /\ EngineUnchanged /\ NurAufrufer

RufeManagementPerspektiven ==
    /\ ergebnis' = [op |-> "management_perspektiven",
                    res |-> analysiere_management_perspektiven(empirische_benchmarks, antworten)]
    /\ Hinterlaesst("management_perspektiven")
    /\ UNCHANGED geaendert /\ NurAufrufer

RufeOrdnungsmomente ==
    /\ ergebnis' = [op |-> "ordnungsmomente",
                    res |-> analysiere_ordnungsmomente(empirische_benchmarks, antworten)]
    /\ Hinterlaesst("ordnungsmomente")
    /\ UNCHANGED geaendert /\ NurAufrufer

RufeEntwicklungsperspektiven ==
    /\ ergebnis' = [op |-> "entwicklungsperspektiven",
                    res |-> analysiere_entwicklungsperspektiven(antworten)]
    /\ Hinterlaesst("entwicklungsperspektiven")
    /\ UNCHANGED geaendert /\ NurAufrufer

RufeSystemischeEigenschaften ==
    /\ ergebnis' = [op |-> "systemische_eigenschaften",
                    res |-> analysiere_systemische_eigenschaften(empirische_benchmarks, antworten)]
    /\ Hinterlaesst("systemische_eigenschaften")
    /\ UNCHANGED geaendert /\ NurAufrufer

RufeKompletteAnalyse ==
    /\ ergebnis' = [op |-> "komplette_analyse",
                    res |-> durchfuehr_komplette_analyse(empirische_benchmarks, antworten)]
    /\ Hinterlaesst("komplette_analyse")
    /\ UNCHANGED geaendert /\ NurAufrufer

\* a direct call of the comparator
RufeVergleich(key, wert) ==
    /\ ergebnis' = [op |-> "vergleich", key |-> key, wert |-> wert,
                    res |-> vergleiche_mit_benchmarks(empirische_benchmarks, EmptyDict, key, wert)]
    /\ empirische_benchmarks' = NachLookups(empirische_benchmarks, <<key>>)
    /\ UNCHANGED <<theoretische_grundlagen, antworten, geaendert>> /\ NurAufrufer

Next ==
    \/ \E k \in AllKeys : \E v \in {RatingMin, RatingMax} : SetzeAntwort(k, v)
    \/ \E k \in AllKeys : EntferneAntwort(k)
    \/ RufeManagementPerspektiven
    \/ RufeOrdnungsmomente
    \/ RufeEntwicklungsperspektiven
    \/ RufeSystemischeEigenschaften
    \/ RufeKompletteAnalyse

Spec == Init /\ [][Next]_vars

\* a caller that only uses the comparator
InitVergleich ==
    /\ theoretische_grundlagen = lade_theoretische_grundlagen
    /\ empirische_benchmarks = lade_empirische_benchmarks
    /\ antworten = EmptyDict
    /\ geaendert = {}
    /\ ergebnis = Keins
    /\ OhneApp /\ OhneThreads

NextVergleich == \E key \in VergleichKeys : \E wert \in VergleichWerte : RufeVergleich(key, wert)

SpecVergleich == InitVergleich /\ [][NextVergleich]_vars

\* the two scenarios of the specification: the four normative indicators
\* at 7 with the strategic and operative ones at 1, and every indicator at
\* 4 except the three technology indicators at 1
szenario_normativ ==
    [k \in ManagementKeys |->
        IF k \in {normativ_keys[i] : i \in 1..Len(normativ_keys)} THEN RatingMax ELSE RatingMin]
szenario_technologien ==
    [k \in IndikatorKeys |->
        IF k \in {technologien_keys[i] : i \in 1..Len(technologien_keys)} THEN 1 ELSE 4]

\* the ratings of the largest spread: the normative, culture and structure
\* indicators at 7, the process indicators at 0, every other one missing
szenario_extrem ==
    [k \in {normativ_keys[i] : i \in 1..Len(normativ_keys)}
            \cup {kultur_keys[i] : i \in 1..Len(kultur_keys)}
            \cup {strukturen_keys[i] : i \in 1..Len(strukturen_keys)}
            \cup {prozesse_keys[i] : i \in 1..Len(prozesse_keys)} |->
        IF k \in {prozesse_keys[i] : i \in 1..Len(prozesse_keys)} THEN 0 ELSE RatingMax]

\* a caller that starts with one of the scenarios
InitSzenario ==
    /\ theoretische_grundlagen = lade_theoretische_grundlagen
    /\ empirische_benchmarks = lade_empirische_benchmarks
    /\ antworten \in {szenario_normativ, szenario_technologien, szenario_extrem}
    /\ geaendert = {}
    /\ ergebnis = Keins
    /\ OhneApp /\ OhneThreads

SpecSzenario == InitSzenario /\ [][Next]_vars

(***************************************************************************)
(* Concurrent callers of one engine instance.  An invocation runs the      *)
(* calls of its body one after the other, each an atomic step that reads   *)
(* the engine's benchmark table and binds its result to a local name of    *)
(* the invocation; steps of different invocations interleave freely.       *)
(***************************************************************************)
MaxThreads == 2
Threads == 1..MaxThreads

\* the mappings and comparator arguments the concurrent callers use
ThreadMappings == {Einheitlich(4), szenario_normativ}
ThreadVergleiche == {[key |-> "perspektiven_balance", wert |-> Dez(1, 2)],
                     [key |-> "foo", wert |-> SCALE]}

AggregatorOps == {"management_perspektiven", "ordnungsmomente", "entwicklungsperspektiven",
                  "systemische_eigenschaften"}

\* the invocations a thread can make
Aufrufe ==
    {[op |-> o, antw |-> a, key |-> "", wert |-> 0] :
        o \in AggregatorOps \cup {"komplette_analyse"}, a \in ThreadMappings}
    \cup {[op |-> "vergleich", antw |-> EmptyDict, key |-> v.key, wert |-> v.wert] :
            v \in ThreadVergleiche}

\* the calls the body of op makes, in order; the body of an aggregator or
\* of the comparator is one step
Plan(op) ==
    IF op = "komplette_analyse"
    THEN <<"management_perspektiven", "ordnungsmomente", "entwicklungsperspektiven",
           "systemische_eigenschaften">>
    ELSE <<op>>

\* a wrong engine: the results of the calls are kept on the instance
Frame_geteilt(t) == 0

\* the local names of thread t's invocation: each invocation has its own
Frame(t) == t

\* the local names before any of them is bound
LeererFrame == [s \in AggregatorOps \cup {"vergleich"} |-> Raise]

\* the result of the call sub of thread state th against the table benchmarks
Berechne(sub, benchmarks, th) ==
    CASE sub = "management_perspektiven" -> analysiere_management_perspektiven(benchmarks, th.antw)
      [] sub = "ordnungsmomente" -> analysiere_ordnungsmomente(benchmarks, th.antw)
      [] sub = "entwicklungsperspektiven" -> analysiere_entwicklungsperspektiven(th.antw)
      [] sub = "systemische_eigenschaften" ->
            analysiere_systemische_eigenschaften(benchmarks, th.antw)
      [] sub = "vergleich" -> vergleiche_mit_benchmarks(benchmarks, EmptyDict, th.key, th.wert)

\* the value an invocation of op returns, from its local names
Zusammenbau(op, frame) ==
    IF op = "komplette_analyse"
    THEN IF \E s \in AggregatorOps : frame[s].raised
         THEN Raise
         ELSE StGallerAnalyseErgebnis(frame["management_perspektiven"], frame["ordnungsmomente"],
                                      frame["entwicklungsperspektiven"],
                                      frame["systemische_eigenschaften"])
    ELSE frame[op]

\* a thread that has not called yet
Frei == [op |-> "keins", antw |-> EmptyDict, key |-> "", wert |-> 0,
         pc |-> 0, fertig |-> FALSE, verschraenkt |-> FALSE, res |-> Raise]

Unterwegs(th) == th.op # "keins" /\ ~th.fertig

InitNebenlaeufig ==
    /\ theoretische_grundlagen = lade_theoretische_grundlagen
    /\ empirische_benchmarks = lade_empirische_benchmarks
    /\ antworten = EmptyDict
    /\ geaendert = {}
    /\ ergebnis = Keins
    /\ OhneApp
    /\ threads = [t \in Threads |-> Frei]
    /\ frames = [f \in {Frame(t) : t \in Threads} |-> LeererFrame]

OhneAufrufer == UNCHANGED <<antworten, geaendert, ergebnis, session, instanzen, regler, lauf>>

\* thread t enters the invocation c
Beginne(t, c) ==
    /\ ~Unterwegs(threads[t])
    /\ threads' = [threads EXCEPT ![t] =
                      [op |-> c.op, antw |-> c.antw, key |-> c.key, wert |-> c.wert,
                       pc |-> 1, fertig |-> FALSE, verschraenkt |-> FALSE, res |-> Raise]]
    /\ frames' = [frames EXCEPT ![Frame(t)] = LeererFrame]
    /\ EngineUnchanged /\ OhneAufrufer

\* thread t makes the next call of its invocation's body; every other
\* invocation under way is from now on interleaved with this one
Schritt(t) ==
    LET th == threads[t]
        sub == Plan(th.op)[th.pc]
    IN /\ Unterwegs(th)
       /\ th.pc <= Len(Plan(th.op))
       /\ frames' = [frames EXCEPT ![Frame(t)] =
                        [@ EXCEPT ![sub] = Berechne(sub, empirische_benchmarks, th)]]
       /\ empirische_benchmarks' =
             NachLookups(empirische_benchmarks,
                         IF sub = "vergleich" THEN <<th.key>> ELSE GeleseneBenchmarks(sub))
       /\ threads' = [u \in Threads |->
                        IF u = t
                        THEN [th EXCEPT !.pc = @ + 1,
                                        !.antw = IF sub = "vergleich" THEN @
                                                 ELSE NachLookups(@, GeleseneKeys(sub))]
                        ELSE IF Unterwegs(threads[u])
                             THEN [threads[u] EXCEPT !.verschraenkt = TRUE]
                             ELSE threads[u]]
       /\ UNCHANGED theoretische_grundlagen /\ OhneAufrufer

\* thread t's invocation returns
KehreZurueck(t) ==
    LET th == threads[t]
    IN /\ Unterwegs(th)
       /\ th.pc = Len(Plan(th.op)) + 1
       /\ threads' = [threads EXCEPT ![t] =
                         [th EXCEPT !.fertig = TRUE,
                                    !.res = Zusammenbau(th.op, frames[Frame(t)])]]
       /\ UNCHANGED frames
       /\ EngineUnchanged /\ OhneAufrufer

NextNebenlaeufig ==
    \/ \E t \in Threads : \E c \in Aufrufe : Beginne(t, c)
    \/ \E t \in Threads : Schritt(t)
    \/ \E t \in Threads : KehreZurueck(t)

SpecNebenlaeufig == InitNebenlaeufig /\ [][NextNebenlaeufig]_vars

(***************************************************************************)
(* The Streamlit application.  session is st.session_state, its values     *)
(* tagged with their Python type; regler holds the slider positions the    *)
(* user has set in the browser and not yet submitted (sliders live in      *)
(* forms, so a position reaches the script only with its form's submit);   *)
(* lauf tells whether the script waits for the user or a rerun is pending; *)
(* antworten and ergebnis are the mapping and the result of the last       *)
(* engine call a handler made.                                             *)
(***************************************************************************)
IntWert(v) == [typ |-> "int", val |-> v]
NoneWert == [typ |-> "NoneType"]
AnalyzerWert(n) == [typ |-> "StGallerFrameworkAnalyzer", id |-> n]
ErgebnisWert(r) == [typ |-> "StGallerAnalyseErgebnis", val |-> r]

\* the default rating of init_session_state
Standardwert == 4

\* a wrong initialisation: the systemic indicators get no default
default_antworten_ohne_systemisch == [k \in IndikatorKeys \ SystemischKeys |-> Standardwert]

\* default_antworten of init_session_state
default_antworten == [k \in IndikatorKeys |-> Standardwert]

\* init_session_state on the session sess, n engines constructed so far
init_session_state(sess, n) ==
    [k \in DOMAIN sess \cup {"st_galler_analyzer", "analyse_ergebnis"} \cup DOMAIN default_antworten |->
        IF k \in DOMAIN sess THEN sess[k]
        ELSE IF k = "st_galler_analyzer" THEN AnalyzerWert(n + 1)
        ELSE IF k = "analyse_ergebnis" THEN NoneWert
        ELSE IntWert(default_antworten[k])]

\* what a script run's init_session_state does to the session and the engine
InitSession(sess) ==
    IF "st_galler_analyzer" \in DOMAIN sess
    THEN /\ instanzen' = instanzen
         /\ UNCHANGED theoretische_grundlagen
    ELSE /\ instanzen' = instanzen + 1
         /\ theoretische_grundlagen' = lade_theoretische_grundlagen

\* the benchmark table of the session's engine at the start of a run
BenchmarksImLauf(sess) ==
    IF "st_galler_analyzer" \in DOMAIN sess THEN empirische_benchmarks
    ELSE lade_empirische_benchmarks

\* a wrong app: the systemic form is rendered as well
GerenderteFormulare_alle ==
    {"management_perspektiven", "ordnungsmomente", "entwicklungsperspektiven",
     "systemische_eigenschaften"}

\* the input forms st_galler_integrated_app renders
GerenderteFormulare ==
    {"management_perspektiven", "ordnungsmomente", "entwicklungsperspektiven"}

\* the sliders of a form
FormularKeys(f) ==
    CASE f = "management_perspektiven" -> ManagementKeys
      [] f = "ordnungsmomente" -> OrdnungsKeys
      [] f = "entwicklungsperspektiven" -> EntwicklungsKeys
      [] f = "systemische_eigenschaften" -> SystemischKeys

GerenderteRegler == UNION {FormularKeys(f) : f \in GerenderteFormulare}

\* the sliders the user operates, where they are on the page
BedienteRegler == {"wertekongruenz", "datennutzung", "marktbeobachtung", "krisenresistenz"}

\* a wrong reset: nothing survives it
ResetBehaelt_nichts == {}

\* the session keys the reset button does not delete
ResetBehaelt == {"st_galler_analyzer"}

InitApp ==
    /\ theoretische_grundlagen = lade_theoretische_grundlagen
    /\ empirische_benchmarks = lade_empirische_benchmarks
    /\ antworten = EmptyDict
    /\ geaendert = {}
    /\ ergebnis = Keins
    /\ session = init_session_state(EmptyDict, 0)
    /\ instanzen = 1
    /\ regler = EmptyDict
    /\ lauf = "bereit"
    /\ OhneThreads

OhneNebenlaeufige == UNCHANGED <<geaendert, threads, frames>>

\* the user moves slider k of a rendered form to v; no script run
SchiebeRegler(k, v) ==
    /\ lauf = "bereit"
    /\ k \in GerenderteRegler
    /\ regler' = IF session[k].val = v THEN DictDel(regler, k) ELSE DictSet(regler, k, v)
    /\ UNCHANGED <<session, instanzen, lauf, antworten, ergebnis>>
    /\ EngineUnchanged /\ OhneNebenlaeufige

\* the ints a handler collects from the session (all but 'analyse_ergebnis')
SessionInts(sess) ==
    [k \in {j \in DOMAIN sess : sess[j].typ = "int" /\ j # "analyse_ergebnis"} |-> sess[k].val]

\* a wrong form handler: a stored record is recomputed from the new ratings
NachAbsenden_neuberechnet(sess, f) ==
    LET neu == [k \in DOMAIN sess |->
                   IF k \in FormularKeys(f) /\ k \in DOMAIN regler
                   THEN IntWert(regler[k]) ELSE sess[k]]
    IN [k \in DOMAIN neu |->
           IF k = "analyse_ergebnis" /\ neu[k].typ = "StGallerAnalyseErgebnis"
           THEN ErgebnisWert(durchfuehr_komplette_analyse(lade_empirische_benchmarks,
                                                          SessionInts(neu)))
           ELSE neu[k]]

\* the session after the sliders of form f returned their submitted positions
NachAbsenden(sess, f) ==
    [k \in DOMAIN sess |->
        IF k \in FormularKeys(f) /\ k \in DOMAIN regler THEN IntWert(regler[k]) ELSE sess[k]]

\* the user presses the submit button of form f: the script runs, the
\* form's sliders deliver their positions, the handler calls the engine on
\* the form's ratings and displays the result
FormAbsenden(f) ==
    LET sess == NachAbsenden(init_session_state(session, instanzen), f)
        m == [k \in FormularKeys(f) |-> sess[k].val]
    IN /\ lauf = "bereit"
       /\ InitSession(session)
       /\ session' = sess
       /\ regler' = [k \in DOMAIN regler \ FormularKeys(f) |-> regler[k]]
       /\ ergebnis' = [op |-> f, res |-> Berechne(f, BenchmarksImLauf(session), [antw |-> m])]
       /\ antworten' = NachLookups(m, GeleseneKeys(f))
       /\ empirische_benchmarks' =
             NachLookups(BenchmarksImLauf(session), GeleseneBenchmarks(f))
       /\ UNCHANGED lauf /\ OhneNebenlaeufige

\* the user presses the full-analysis button: the handler collects every
\* int of the session and stores the engine's record in the session
VollstaendigeAnalyse ==
    LET sess == init_session_state(session, instanzen)
        m == SessionInts(sess)
        r == durchfuehr_komplette_analyse(BenchmarksImLauf(session), m)
    IN /\ lauf = "bereit"
       /\ InitSession(session)
       /\ session' = DictSet(sess, "analyse_ergebnis", ErgebnisWert(r))
       /\ ergebnis' = [op |-> "komplette_analyse", res |-> r]
       /\ antworten' = NachLookups(m, GeleseneKeys("komplette_analyse"))
       /\ empirische_benchmarks' =
             NachLookups(BenchmarksImLauf(session), GeleseneBenchmarks("komplette_analyse"))
       /\ UNCHANGED <<regler, lauf>> /\ OhneNebenlaeufige

\* the user presses the reset button: the handler deletes the session's
\* keys and asks for a rerun; a slider whose default changes with the
\* rerun is a new widget and loses its unsubmitted position
Zuruecksetzen ==
    LET sess == init_session_state(session, instanzen)
    IN /\ lauf = "bereit"
       /\ InitSession(session)
       /\ session' = [k \in DOMAIN sess \cap ResetBehaelt |-> sess[k]]
       /\ regler' = [k \in {j \in DOMAIN regler : sess[j].val = default_antworten[j]} |->
                        regler[k]]
       /\ lauf' = "rerun"
       /\ UNCHANGED <<antworten, ergebnis, empirische_benchmarks>> /\ OhneNebenlaeufige

\* the rerun after the reset: init_session_state fills the session again
Neulauf ==
    /\ lauf = "rerun"
    /\ InitSession(session)
    /\ session' = init_session_state(session, instanzen)
    /\ empirische_benchmarks' = BenchmarksImLauf(session)
    /\ lauf' = "bereit"
    /\ UNCHANGED <<regler, antworten, ergebnis>> /\ OhneNebenlaeufige

NextApp ==
    \/ \E k \in BedienteRegler : \E v \in {RatingMin, RatingMax} : SchiebeRegler(k, v)
    \/ \E f \in GerenderteFormulare : FormAbsenden(f)
    \/ VollstaendigeAnalyse
    \/ Zuruecksetzen
    \/ Neulauf

SpecApp == InitApp /\ [][NextApp]_vars

\* the recommendation texts for the four order elements
empfehlung_kultur ==
    "**Kultur entwickeln:** Gemeinsame Werte und Verhaltensnormen stärken"
empfehlung_strukturen ==
    "**Strukturen optimieren:** Rollenklarheit und Entscheidungskompetenzen verbessern"
empfehlung_prozesse ==
    "**Prozesse standardisieren:** Arbeitsabläufe und Entscheidungsgeschwindigkeit optimieren"
empfehlung_technologien ==
    "**Technologien modernisieren:** Systemunterstützung und Digitalisierung vorantreiben"

\* the list [text] if b else []
Wenn(b, text) == IF b THEN <<text>> ELSE << >>

\* min of a non-empty list of floats
ListMin(xs) == CHOOSE v \in {xs[i] : i \in 1..Len(xs)} : \A j \in 1..Len(xs) : v <= xs[j]

\* a wrong display: four independent ifs instead of the if/elif chain
empfehlungen_if(e) ==
    LET min_ordnung == ListMin(<<e.kultur_score, e.strukturen_score, e.prozesse_score,
                                 e.technologien_score>>)
    IN Wenn(e.perspektiven_balance < Dez(7, 10),
            "**Management-Balance verbessern:** Arbeiten Sie an der Ausgewogenheit der drei Perspektiven")
       \o Wenn(e.normativ_score < Fix(4),
               "**Normative Perspektive stärken:** Fokus auf Wertekongruenz und Sinnstiftung")
       \o Wenn(e.strategisch_score < Fix(4),
               "**Strategische Perspektive stärken:** Verbesserung der Wettbewerbspositionierung")
       \o Wenn(e.operativ_score < Fix(4),
               "**Operative Perspektive stärken:** Optimierung von Prozessen und Ressourceneinsatz")
       \o Wenn(e.ordnungsmomente_kohaerenz < Dez(6, 10),
               "**Ordnungs-Kohärenz erhöhen:** Bessere Abstimmung zwischen Kultur, Strukturen, Prozessen und Technologien")
       \o Wenn(e.kultur_score = min_ordnung, empfehlung_kultur)
       \o Wenn(e.strukturen_score = min_ordnung, empfehlung_strukturen)
       \o Wenn(e.prozesse_score = min_ordnung, empfehlung_prozesse)
       \o Wenn(e.technologien_score = min_ordnung, empfehlung_technologien)

\* the list empfehlungen the display builds from the stored record e
empfehlungen(e) ==
    LET min_ordnung == ListMin(<<e.kultur_score, e.strukturen_score, e.prozesse_score,
                                 e.technologien_score>>)
    IN Wenn(e.perspektiven_balance < Dez(7, 10),
            "**Management-Balance verbessern:** Arbeiten Sie an der Ausgewogenheit der drei Perspektiven")
       \o Wenn(e.normativ_score < Fix(4),
               "**Normative Perspektive stärken:** Fokus auf Wertekongruenz und Sinnstiftung")
       \o Wenn(e.strategisch_score < Fix(4),
               "**Strategische Perspektive stärken:** Verbesserung der Wettbewerbspositionierung")
       \o Wenn(e.operativ_score < Fix(4),
               "**Operative Perspektive stärken:** Optimierung von Prozessen und Ressourceneinsatz")
       \o Wenn(e.ordnungsmomente_kohaerenz < Dez(6, 10),
               "**Ordnungs-Kohärenz erhöhen:** Bessere Abstimmung zwischen Kultur, Strukturen, Prozessen und Technologien")
       \o (IF e.kultur_score = min_ordnung THEN <<empfehlung_kultur>>
           ELSE IF e.strukturen_score = min_ordnung THEN <<empfehlung_strukturen>>
           ELSE IF e.prozesse_score = min_ordnung THEN <<empfehlung_prozesse>>
           ELSE IF e.technologien_score = min_ordnung THEN <<empfehlung_technologien>>
           ELSE << >>)

\* what the overall tab displays as recommendations for the session sess:
\* the block runs only if the stored result is truthy
angezeigte_empfehlungen(sess) ==
    IF "analyse_ergebnis" \in DOMAIN sess /\ sess["analyse_ergebnis"].typ = "StGallerAnalyseErgebnis"
    THEN [angezeigt |-> TRUE, liste |-> empfehlungen(sess["analyse_ergebnis"].val)]
    ELSE [angezeigt |-> FALSE, liste |-> << >>]

(***************************************************************************)
(* A caller whose mapping rates each perspective and each order element    *)
(* uniformly, and who calls the two aggregators that compute an index.     *)
(***************************************************************************)
GruppenWerte == {1, 4, 7}

\* the indicator keys of the perspectives and of the order elements
PerspektivenGruppen ==
    [normativ |-> normativ_keys, strategisch |-> strategisch_keys, operativ |-> operativ_keys]
OrdnungsGruppen ==
    [kultur |-> kultur_keys, strukturen |-> strukturen_keys,
     prozesse |-> prozesse_keys, technologien |-> technologien_keys]

\* the keys of the groups
GruppenKeys(gruppen) == UNION {{gruppen[g][i] : i \in 1..Len(gruppen[g])} : g \in DOMAIN gruppen}

\* the group of key k
GruppeVon(gruppen, k) ==
    CHOOSE g \in DOMAIN gruppen : \E i \in 1..Len(gruppen[g]) : gruppen[g][i] = k

\* every indicator rated: perspective p at pw[p], order element o at ow[o],
\* the others at the middle of the scale
Gruppiert(pw, ow) ==
    [k \in IndikatorKeys |->
        IF k \in GruppenKeys(PerspektivenGruppen) THEN pw[GruppeVon(PerspektivenGruppen, k)]
        ELSE IF k \in GruppenKeys(OrdnungsGruppen) THEN ow[GruppeVon(OrdnungsGruppen, k)]
        ELSE 4]

Gruppenmappings ==
    {Gruppiert(pw, ow) : pw \in [DOMAIN PerspektivenGruppen -> GruppenWerte],
                         ow \in [DOMAIN OrdnungsGruppen -> GruppenWerte]}

InitGruppen ==
    /\ theoretische_grundlagen = lade_theoretische_grundlagen
    /\ empirische_benchmarks = lade_empirische_benchmarks
    /\ antworten \in Gruppenmappings
    /\ geaendert = {}
    /\ ergebnis = Keins
    /\ OhneApp /\ OhneThreads

NextGruppen ==
    \/ RufeManagementPerspektiven
    \/ RufeOrdnungsmomente

SpecGruppen == InitGruppen /\ [][NextGruppen]_vars

(***************************************************************************)
(* Properties                                                              *)
(***************************************************************************)
\* the last call was operation op and it returned a result
Ergab(op) == ergebnis.op = op /\ ~ergebnis.res.raised

AlleGleich(xs) == \A i, j \in 1..Len(xs) : xs[i] = xs[j]

\* C1 as stated, refuted: whenever all dimension scores of a family are
\* equal, balance and kohärenz (standalone and in the full analysis) equal
\* 1/3.5.
C1_IndexIstEinsDurchDreiKommaFuenf ==
    /\ Ergab("management_perspektiven")
         /\ AlleGleich(DictValues(perspektiven_order, ergebnis.res.scores))
       => ergebnis.res.balance = Dez(2, 7)
    /\ Ergab("ordnungsmomente")
         /\ AlleGleich(DictValues(ordnungs_order, ergebnis.res.scores))
       => ergebnis.res.kohaerenz = Dez(2, 7)
    /\ Ergab("komplette_analyse")
         /\ AlleGleich(<<ergebnis.res.normativ_score, ergebnis.res.strategisch_score,
                         ergebnis.res.operativ_score>>)
       => ergebnis.res.perspektiven_balance = Dez(2, 7)
    /\ Ergab("komplette_analyse")
         /\ AlleGleich(<<ergebnis.res.kultur_score, ergebnis.res.strukturen_score,
                         ergebnis.res.prozesse_score, ergebnis.res.technologien_score>>)
       => ergebnis.res.ordnungsmomente_kohaerenz = Dez(2, 7)

\* C1 amended: whenever all dimension scores of a family are equal (every
\* indicator at the same value, or an empty mapping), balance and kohärenz
\* (standalone and in the full analysis) equal 1, that is 1 - 0/3.5.
C1_GleicheScoresIndexEins ==
    /\ Ergab("management_perspektiven")
         /\ AlleGleich(DictValues(perspektiven_order, ergebnis.res.scores))
       => ergebnis.res.balance = SCALE
    /\ Ergab("ordnungsmomente")
         /\ AlleGleich(DictValues(ordnungs_order, ergebnis.res.scores))
       => ergebnis.res.kohaerenz = SCALE
    /\ Ergab("komplette_analyse")
         /\ AlleGleich(<<ergebnis.res.normativ_score, ergebnis.res.strategisch_score,
                         ergebnis.res.operativ_score>>)
       => ergebnis.res.perspektiven_balance = SCALE
    /\ Ergab("komplette_analyse")
         /\ AlleGleich(<<ergebnis.res.kultur_score, ergebnis.res.strukturen_score,
                         ergebnis.res.prozesse_score, ergebnis.res.technologien_score>>)
       => ergebnis.res.ordnungsmomente_kohaerenz = SCALE

\* the full analysis of a mapping with every indicator at 7 has both
\* indices at 1
C1_Witness ==
    /\ Ergab("komplette_analyse")
    /\ antworten = Einheitlich(RatingMax)
    /\ ergebnis.res.normativ_score = Fix(RatingMax)
    /\ ergebnis.res.perspektiven_balance = SCALE
    /\ ergebnis.res.ordnungsmomente_kohaerenz = SCALE

\* C2 as stated, refuted by the code: the benchmark comparison of
\* analysiere_systemische_eigenschaften carries the optimal value, the
\* study and the finding of the registered record "umwelt_sensitivität".
C2_VergleichMitRegistriertemBenchmark ==
    Ergab("systemische_eigenschaften") =>
        LET v == ergebnis.res.empirischer_vergleich
            b == empirische_benchmarks["umwelt_sensitivität"]
        IN /\ v.aktueller_wert = ergebnis.res.umwelt_sensitivitaet
           /\ v.optimaler_benchmark = b.optimal
           /\ v.studie = b.studie
           /\ v.empirischer_befund = b.befund

\* C3: every score and composite field of the record of the full analysis
\* equals the value the standalone aggregator returns for the same mapping.
C3_KomplettGleichEinzeln ==
    Ergab("komplette_analyse") =>
        LET e == ergebnis.res
            mp == analysiere_management_perspektiven(empirische_benchmarks, antworten)
            om == analysiere_ordnungsmomente(empirische_benchmarks, antworten)
            ep == analysiere_entwicklungsperspektiven(antworten)
            se == analysiere_systemische_eigenschaften(empirische_benchmarks, antworten)
        IN /\ e.normativ_score = mp.scores.normativ
           /\ e.strategisch_score = mp.scores.strategisch
           /\ e.operativ_score = mp.scores.operativ
           /\ e.perspektiven_balance = mp.balance
           /\ e.kultur_score = om.scores.kultur
           /\ e.strukturen_score = om.scores.strukturen
           /\ e.prozesse_score = om.scores.prozesse
           /\ e.technologien_score = om.scores.technologien
           /\ e.ordnungsmomente_kohaerenz = om.kohaerenz
           /\ e.reflexions_faehigkeit = ep.scores.reflexion
           /\ e.innovations_faehigkeit = ep.scores.innovation
           /\ e.transformations_faehigkeit = ep.scores.transformation
           /\ e.umwelt_sensitivitaet = se.umwelt_sensitivitaet
           /\ e.anpassungs_faehigkeit = se.anpassungs_faehigkeit
           /\ e.widerstands_faehigkeit = se.widerstands_faehigkeit

\* a full analysis of a mapping in which the development family and the
\* systemic adaptability indicators are rated differently
C3_Witness ==
    /\ Ergab("komplette_analyse")
    /\ geaendert \cap EntwicklungsKeys # {}
    /\ analysiere_entwicklungsperspektiven(antworten).anpassungs_faehigkeit
         # ergebnis.res.anpassungs_faehigkeit

\* C4: the comparator returns abweichung = aktueller_wert - optimal and
\* "überdurchschnittlich" exactly when aktueller_wert > optimal; for
\* aktueller_wert = optimal it returns "unterdurchschnittlich".
C4_AbweichungUndInterpretation ==
    Ergab("vergleich") =>
        LET v == ergebnis.res
        IN /\ v.aktueller_wert = ergebnis.wert
           /\ v.abweichung = ergebnis.wert - v.optimaler_benchmark
           /\ v.interpretation \in {"überdurchschnittlich", "unterdurchschnittlich"}
           /\ v.interpretation = "überdurchschnittlich" <=> ergebnis.wert > v.optimaler_benchmark
           /\ ergebnis.wert = v.optimaler_benchmark => v.interpretation = "unterdurchschnittlich"

\* a comparison of a value that equals the registered optimal value
C4_Witness ==
    /\ Ergab("vergleich")
    /\ ergebnis.key = "perspektiven_balance"
    /\ ergebnis.wert = Dez(8, 10)
    /\ ergebnis.res.optimaler_benchmark = ergebnis.wert
    /\ ergebnis.res.abweichung = 0
    /\ ergebnis.res.interpretation = "unterdurchschnittlich"

\* C5: a comparison for a key that is not in the benchmark table does not
\* raise; it returns optimal 0.7, empty study and finding, and deviation
\* and verdict against 0.7 ("foo" with 0.9 gives 0.2 and above).
C5_UnbekannterKeyFailsSoft ==
    ergebnis.op = "vergleich" /\ ergebnis.key \notin DOMAIN empirische_benchmarks =>
        /\ ~ergebnis.res.raised
        /\ ergebnis.res.optimaler_benchmark = Dez(7, 10)
        /\ ergebnis.res.studie = ""
        /\ ergebnis.res.empirischer_befund = ""
        /\ ergebnis.res.abweichung = ergebnis.wert - Dez(7, 10)
        /\ ergebnis.res.interpretation =
             IF ergebnis.wert > Dez(7, 10) THEN "überdurchschnittlich"
                                           ELSE "unterdurchschnittlich"
        /\ ergebnis.key = "foo" /\ ergebnis.wert = Dez(9, 10)
             => /\ ergebnis.res.abweichung = Dez(2, 10)
                /\ ergebnis.res.interpretation = "überdurchschnittlich"

\* the comparison of 0.9 under the unregistered key "foo"
C5_Witness ==
    /\ ergebnis.op = "vergleich"
    /\ ergebnis.key = "foo"
    /\ ergebnis.wert = Dez(9, 10)
    /\ ~ergebnis.res.raised
    /\ ergebnis.res.abweichung = Dez(2, 10)
    /\ ergebnis.res.studie = ""

\* the rating the mapping holds for k, a missing key counted as 0
Rating(k) == IF k \in DOMAIN antworten THEN antworten[k] ELSE 0

\* score is the arithmetic mean of the ratings of keys
IstMittel(score, keys) ==
    score * Len(keys) = SCALE * SeqSum([i \in 1..Len(keys) |-> Rating(keys[i])])

\* every indicator of the vocabulary is rated v
AlleIndikatoren(v) == \A k \in IndikatorKeys : k \in DOMAIN antworten /\ antworten[k] = v

\* C6: every dimension score of the four aggregators is the arithmetic mean
\* of its designated indicators (4 per management perspective, 3 per other
\* dimension), a missing indicator counted as 0; with every indicator at v
\* every dimension score is v.
C6_ScoreIstMittelDerIndikatoren ==
    /\ Ergab("management_perspektiven") =>
          LET sc == ergebnis.res.scores
          IN /\ Len(normativ_keys) = 4 /\ Len(strategisch_keys) = 4 /\ Len(operativ_keys) = 4
             /\ IstMittel(sc.normativ, normativ_keys)
             /\ IstMittel(sc.strategisch, strategisch_keys)
             /\ IstMittel(sc.operativ, operativ_keys)
             /\ \A v \in RatingMin..RatingMax : AlleIndikatoren(v) =>
                    \A d \in DOMAIN sc : sc[d] = Fix(v)
    /\ Ergab("ordnungsmomente") =>
          LET sc == ergebnis.res.scores
          IN /\ Len(kultur_keys) = 3 /\ Len(strukturen_keys) = 3
             /\ Len(prozesse_keys) = 3 /\ Len(technologien_keys) = 3
             /\ IstMittel(sc.kultur, kultur_keys)
             /\ IstMittel(sc.strukturen, strukturen_keys)
             /\ IstMittel(sc.prozesse, prozesse_keys)
             /\ IstMittel(sc.technologien, technologien_keys)
             /\ \A v \in RatingMin..RatingMax : AlleIndikatoren(v) =>
                    \A d \in DOMAIN sc : sc[d] = Fix(v)
    /\ Ergab("entwicklungsperspektiven") =>
          LET sc == ergebnis.res.scores
          IN /\ Len(reflexion_keys) = 3 /\ Len(innovation_keys) = 3
             /\ Len(transformation_keys) = 3
             /\ IstMittel(sc.reflexion, reflexion_keys)
             /\ IstMittel(sc.innovation, innovation_keys)
             /\ IstMittel(sc.transformation, transformation_keys)
             /\ \A v \in RatingMin..RatingMax : AlleIndikatoren(v) =>
                    \A d \in DOMAIN sc : sc[d] = Fix(v)
    /\ Ergab("systemische_eigenschaften") =>
          LET r == ergebnis.res
          IN /\ Len(umwelt_keys) = 3 /\ Len(anpassung_keys) = 3 /\ Len(resilienz_keys) = 3
             /\ IstMittel(r.umwelt_sensitivitaet, umwelt_keys)
             /\ IstMittel(r.anpassungs_faehigkeit, anpassung_keys)
             /\ IstMittel(r.widerstands_faehigkeit, resilienz_keys)
             /\ \A v \in RatingMin..RatingMax : AlleIndikatoren(v) =>
                    /\ r.umwelt_sensitivitaet = Fix(v)
                    /\ r.anpassungs_faehigkeit = Fix(v)
                    /\ r.widerstands_faehigkeit = Fix(v)

\* the order-element analysis of a mapping from which one culture indicator
\* is missing while the other two are rated 4: the culture score is 8/3
C6_Witness ==
    /\ Ergab("ordnungsmomente")
    /\ "wertekonsens" \notin DOMAIN antworten
    /\ Rating("verhaltensnormen") = 4 /\ Rating("gemeinschaftsgefuehl") = 4
    /\ ergebnis.res.scores.kultur = Dez(8, 3)
    /\ ergebnis.res.scores.strukturen = Fix(4)

EngineOps == {"management_perspektiven", "ordnungsmomente", "entwicklungsperspektiven",
              "systemische_eigenschaften", "komplette_analyse"}

\* C7: on the empty mapping each of the four aggregators and the full
\* analysis returns a result (no error outcome) in which every dimension
\* score is 0.
C7_LeeresMappingErgibtNull ==
    ergebnis.op \in EngineOps /\ antworten = EmptyDict =>
        /\ ~ergebnis.res.raised
        /\ ergebnis.op \in {"management_perspektiven", "ordnungsmomente",
                            "entwicklungsperspektiven"}
             => \A d \in DOMAIN ergebnis.res.scores : ergebnis.res.scores[d] = 0
        /\ ergebnis.op = "systemische_eigenschaften"
             => /\ ergebnis.res.umwelt_sensitivitaet = 0
                /\ ergebnis.res.anpassungs_faehigkeit = 0
                /\ ergebnis.res.widerstands_faehigkeit = 0
        /\ ergebnis.op = "komplette_analyse"
             => \A f \in {"normativ_score", "strategisch_score", "operativ_score",
                          "kultur_score", "strukturen_score", "prozesse_score",
                          "technologien_score", "reflexions_faehigkeit",
                          "innovations_faehigkeit", "transformations_faehigkeit",
                          "umwelt_sensitivitaet", "anpassungs_faehigkeit",
                          "widerstands_faehigkeit"} : ergebnis.res[f] = 0

\* the full analysis of the empty mapping
C7_Witness ==
    /\ ergebnis.op = "komplette_analyse"
    /\ antworten = EmptyDict
    /\ ~ergebnis.res.raised
    /\ ergebnis.res.technologien_score = 0
    /\ ergebnis.res.widerstands_faehigkeit = 0

\* the mapping antw without the keys outside keys
Restrict(antw, keys) == [k \in DOMAIN antw \cap keys |-> antw[k]]

\* C8: keys outside an aggregator's vocabulary cause no error and do not
\* influence the result: each aggregator returns for the mapping what it
\* returns for the mapping cut down to its own family's indicators, and the
\* full analysis what it returns for the mapping cut down to the indicator
\* vocabulary.
C8_FremdeKeysOhneEinfluss ==
    /\ ergebnis.op \in EngineOps => ~ergebnis.res.raised
    /\ ergebnis.op = "management_perspektiven" =>
          ergebnis.res = analysiere_management_perspektiven(
                             empirische_benchmarks, Restrict(antworten, ManagementKeys))
    /\ ergebnis.op = "ordnungsmomente" =>
          ergebnis.res = analysiere_ordnungsmomente(
                             empirische_benchmarks, Restrict(antworten, OrdnungsKeys))
    /\ ergebnis.op = "entwicklungsperspektiven" =>
          ergebnis.res = analysiere_entwicklungsperspektiven(
                             Restrict(antworten, EntwicklungsKeys))
    /\ ergebnis.op = "systemische_eigenschaften" =>
          ergebnis.res = analysiere_systemische_eigenschaften(
                             empirische_benchmarks, Restrict(antworten, SystemischKeys))
    /\ ergebnis.op = "komplette_analyse" =>
          ergebnis.res = durchfuehr_komplette_analyse(
                             empirische_benchmarks, Restrict(antworten, IndikatorKeys))

\* the management analysis of a mapping that holds the extra key "foo"
\* next to rated order-element indicators
C8_Witness ==
    /\ Ergab("management_perspektiven")
    /\ "foo" \in DOMAIN antworten
    /\ Rating("prozessstandardisierung") = RatingMax
    /\ ergebnis.res.scores.operativ = Fix(RatingMax)

\* C9: dominante_perspektive is one of normativ, strategisch, operativ, and
\* schwaechstes_ordnungselement and staerkstes_ordnungselement are each one
\* of kultur, strukturen, prozesse, technologien; the fields are present in
\* every result.
C9_AuswahlIstDimensionsKey ==
    /\ ergebnis.op = "management_perspektiven" =>
          /\ ~ergebnis.res.raised
          /\ "dominante_perspektive" \in DOMAIN ergebnis.res
          /\ ergebnis.res.dominante_perspektive \in {"normativ", "strategisch", "operativ"}
    /\ ergebnis.op = "ordnungsmomente" =>
          /\ ~ergebnis.res.raised
          /\ {"schwaechstes_ordnungselement", "staerkstes_ordnungselement"}
                \subseteq DOMAIN ergebnis.res
          /\ ergebnis.res.schwaechstes_ordnungselement
                \in {"kultur", "strukturen", "prozesse", "technologien"}
          /\ ergebnis.res.staerkstes_ordnungselement
                \in {"kultur", "strukturen", "prozesse", "technologien"}

\* an order-element analysis whose weakest and strongest element differ
C9_Witness ==
    /\ Ergab("ordnungsmomente")
    /\ ergebnis.res.staerkstes_ordnungselement = "technologien"
    /\ ergebnis.res.schwaechstes_ordnungselement = "kultur"

\* the greatest and the least value of the dict f with keys order
MaxWert(order, f) ==
    CHOOSE v \in {f[order[i]] : i \in 1..Len(order)} : \A j \in 1..Len(order) : f[order[j]] <= v
MinWert(order, f) ==
    CHOOSE v \in {f[order[i]] : i \in 1..Len(order)} : \A j \in 1..Len(order) : f[order[j]] >= v

\* the first key of order whose value is v
ErsterMit(order, f, v) ==
    order[CHOOSE i \in 1..Len(order) : f[order[i]] = v /\ \A j \in 1..(i - 1) : f[order[j]] # v]

\* C10: among dimension scores tied for the maximum (minimum) the selected
\* key is the first in declaration order, for dominante_perspektive, for
\* staerkstes and schwaechstes_ordnungselement and for the development
\* profile; with all scores equal the results are normativ, kultur (twice)
\* and "Lernende Organisation".
C10_ErsterBeiGleichstand ==
    /\ Ergab("management_perspektiven") =>
          LET sc == ergebnis.res.scores
              order == <<"normativ", "strategisch", "operativ">>
          IN /\ ergebnis.res.dominante_perspektive = ErsterMit(order, sc, MaxWert(order, sc))
             /\ AlleGleich(DictValues(order, sc))
                  => ergebnis.res.dominante_perspektive = "normativ"
    /\ Ergab("ordnungsmomente") =>
          LET sc == ergebnis.res.scores
              order == <<"kultur", "strukturen", "prozesse", "technologien">>
          IN /\ ergebnis.res.staerkstes_ordnungselement = ErsterMit(order, sc, MaxWert(order, sc))
             /\ ergebnis.res.schwaechstes_ordnungselement = ErsterMit(order, sc, MinWert(order, sc))
             /\ AlleGleich(DictValues(order, sc))
                  => /\ ergebnis.res.staerkstes_ordnungselement = "kultur"
                     /\ ergebnis.res.schwaechstes_ordnungselement = "kultur"
    /\ Ergab("entwicklungsperspektiven") =>
          LET sc == ergebnis.res.scores
              order == <<"reflexion", "innovation", "transformation">>
              erster == ErsterMit(order, sc, MaxWert(order, sc))
          IN /\ ergebnis.res.entwicklungs_profil =
                  CASE erster = "reflexion" -> "Lernende Organisation"
                    [] erster = "innovation" -> "Innovative Organisation"
                    [] erster = "transformation" -> "Transformative Organisation"
             /\ AlleGleich(DictValues(order, sc))
                  => ergebnis.res.entwicklungs_profil = "Lernende Organisation"

\* a management analysis in which strategisch and operativ tie for the
\* maximum above normativ
C10_Witness ==
    /\ Ergab("management_perspektiven")
    /\ ergebnis.res.scores.strategisch = ergebnis.res.scores.operativ
    /\ ergebnis.res.scores.normativ < ergebnis.res.scores.strategisch
    /\ ergebnis.res.dominante_perspektive = "strategisch"

\* C11: the management analysis returns balance = 1 - std/3.5 with std the
\* population standard deviation of the three perspective scores (stated
\* on squares, within the rounding of the fixed-point root: with
\* d = 1 - balance and q the sum of the three squared deviations from the
\* mean, (3.5 d)^2 <= q/3 < (3.5 d + 5/SCALE)^2), and a dominant perspective
\* whose score no other score exceeds; for the four normative indicators
\* at 7 and the strategic and operative ones at 1 the scores are 7, 1, 1,
\* the balance is 0.192 to three decimals and the dominant perspective is
\* "normativ".
C11_BalanceUndDominanz ==
    Ergab("management_perspektiven") =>
        LET res == ergebnis.res
            sc == res.scores
            m == (sc["normativ"] + sc["strategisch"] + sc["operativ"]) \div 3
            q == (sc["normativ"] - m) * (sc["normativ"] - m)
                 + (sc["strategisch"] - m) * (sc["strategisch"] - m)
                 + (sc["operativ"] - m) * (sc["operativ"] - m)
            d == SCALE - res.balance
        IN /\ 3 * (7 * d) * (7 * d) <= 4 * q
           /\ 4 * q < 3 * (7 * d + 10) * (7 * d + 10)
           /\ \A p \in {"normativ", "strategisch", "operativ"} :
                  sc[p] <= sc[res.dominante_perspektive]
           /\ Restrict(antworten, ManagementKeys) = szenario_normativ
                  => /\ sc["normativ"] = 7 * SCALE
                     /\ sc["strategisch"] = 1 * SCALE
                     /\ sc["operativ"] = 1 * SCALE
                     /\ 191 * SCALE <= 1000 * res.balance
                     /\ 1000 * res.balance <= 193 * SCALE
                     /\ res.dominante_perspektive = "normativ"

\* the management analysis of the first scenario
C11_Witness ==
    /\ Ergab("management_perspektiven")
    /\ Restrict(antworten, ManagementKeys) = szenario_normativ
    /\ ergebnis.res.balance < SCALE
    /\ ergebnis.res.dominante_perspektive = "normativ"

\* C12: the order-element analysis returns as weakest element a key whose
\* score is minimal among the four scores and as strongest element a key
\* whose score is maximal; with every order indicator at 4 except the three
\* technology indicators at 1 the weakest element is "technologien" and
\* the strongest is "kultur".
C12_SchwaechstesUndStaerkstes ==
    Ergab("ordnungsmomente") =>
        LET res == ergebnis.res
            sc == res.scores
        IN /\ \A e \in {"kultur", "strukturen", "prozesse", "technologien"} :
                  /\ sc[res.schwaechstes_ordnungselement] <= sc[e]
                  /\ sc[e] <= sc[res.staerkstes_ordnungselement]
           /\ Restrict(antworten, OrdnungsKeys) = Restrict(szenario_technologien, OrdnungsKeys)
                  => /\ res.schwaechstes_ordnungselement = "technologien"
                     /\ res.staerkstes_ordnungselement = "kultur"

\* the order-element analysis of the second scenario
C12_Witness ==
    /\ Ergab("ordnungsmomente")
    /\ Restrict(antworten, OrdnungsKeys) = Restrict(szenario_technologien, OrdnungsKeys)
    /\ ergebnis.res.scores["technologien"] = 1 * SCALE
    /\ ergebnis.res.scores["kultur"] = 4 * SCALE
    /\ ergebnis.res.schwaechstes_ordnungselement = "technologien"

\* C13: the development profile is exactly the label of a dimension whose
\* score is maximal (reflexion: "Lernende Organisation", innovation:
\* "Innovative Organisation", transformation: "Transformative
\* Organisation"); the fallback "Ausgeglichene Organisation" is never
\* returned, ties of two or of all three scores included.
C13_ProfilIstLabelEinesMaximums ==
    Ergab("entwicklungsperspektiven") =>
        LET res == ergebnis.res
            sc == res.scores
            dims == {"reflexion", "innovation", "transformation"}
            label(k) == CASE k = "reflexion" -> "Lernende Organisation"
                          [] k = "innovation" -> "Innovative Organisation"
                          [] k = "transformation" -> "Transformative Organisation"
        IN /\ \E k \in dims : /\ res.entwicklungs_profil = label(k)
                              /\ \A j \in dims : sc[j] <= sc[k]
           /\ res.entwicklungs_profil # "Ausgeglichene Organisation"

\* a development analysis in which innovation and transformation tie for
\* the maximum above reflexion
C13_Witness ==
    /\ Ergab("entwicklungsperspektiven")
    /\ ergebnis.res.scores["innovation"] = ergebnis.res.scores["transformation"]
    /\ ergebnis.res.scores["reflexion"] < ergebnis.res.scores["innovation"]
    /\ ergebnis.res.entwicklungs_profil = "Innovative Organisation"

\* the indicators of the three systemic axes
UmweltKeys == {umwelt_keys[i] : i \in 1..Len(umwelt_keys)}
AnpassungResilienzKeys ==
    {anpassung_keys[i] : i \in 1..Len(anpassung_keys)}
    \cup {resilienz_keys[i] : i \in 1..Len(resilienz_keys)}

\* the mapping antw with every adaptability and resilience indicator at v
MitAnpassungResilienz(antw, v) ==
    [k \in DOMAIN antw \cup AnpassungResilienzKeys |->
        IF k \in AnpassungResilienzKeys THEN v ELSE antw[k]]

\* C14: in the systemic analysis only the environment axis is benchmarked:
\* the comparison's current value is the environment-sensitivity score, and
\* the whole comparison is the one the analysis returns when the
\* adaptability and resilience indicators are removed or all set to any
\* other rating.
C14_NurUmweltImVergleich ==
    Ergab("systemische_eigenschaften") =>
        LET res == ergebnis.res
            allein(antw) ==
                analysiere_systemische_eigenschaften(empirische_benchmarks, antw).empirischer_vergleich
        IN /\ res.empirischer_vergleich.aktueller_wert = res.umwelt_sensitivitaet
           /\ res.empirischer_vergleich = allein(Restrict(antworten, DOMAIN antworten \ AnpassungResilienzKeys))
           /\ \A v \in RatingMin..RatingMax :
                  res.empirischer_vergleich = allein(MitAnpassungResilienz(antworten, v))

\* a systemic analysis of a mapping in which an adaptability or resilience
\* indicator was changed, so that the axes differ
C14_Witness ==
    /\ Ergab("systemische_eigenschaften")
    /\ geaendert \cap AnpassungResilienzKeys # {}
    /\ \/ ergebnis.res.anpassungs_faehigkeit # ergebnis.res.umwelt_sensitivitaet
       \/ ergebnis.res.widerstands_faehigkeit # ergebnis.res.umwelt_sensitivitaet
    /\ ergebnis.res.empirischer_vergleich.aktueller_wert = ergebnis.res.umwelt_sensitivitaet

\* C17: the record of the full analysis always carries the same four
\* citation strings, whatever the ratings mapping, and an empty mapping of
\* empirical indicators.
C17_ReferenzenFest ==
    Ergab("komplette_analyse") =>
        /\ ergebnis.res.theoretische_referenzen =
              <<"Rüegg-Stürm, J. & Grand, S. (2019). Das St. Galler Management Modell",
                "Gomez, P. & Weber, B. (2020). Strategic Management",
                "Mintzberg, H. & Westley, F. (2021). Organizational Learning",
                "Luhmann, N. (2018). Social Systems and Management">>
        /\ ergebnis.res.empirische_indikatoren = EmptyDict

\* a full analysis of a mapping that is neither empty nor uniform
C17_Witness ==
    /\ Ergab("komplette_analyse")
    /\ geaendert # {}
    /\ ergebnis.res.normativ_score # ergebnis.res.operativ_score
    /\ Len(ergebnis.res.theoretische_referenzen) = 4

\* every designated indicator present in the mapping is rated in 0..7
RatingsInNullBisSieben ==
    \A k \in IndikatorKeys \cap DOMAIN antworten : antworten[k] \in 0..7

\* C19: for ratings in 0..7 (a missing indicator counting as 0) the balance
\* and coherence indices, as returned by the two aggregators and as carried
\* by the full analysis, lie in [0, 1], and an index is 1 only when all
\* dimension scores of its family are equal.
C19_IndexInEinheitsintervall ==
    RatingsInNullBisSieben =>
        /\ Ergab("management_perspektiven") =>
              LET res == ergebnis.res
              IN /\ 0 <= res.balance /\ res.balance <= SCALE
                 /\ res.balance = SCALE
                      => AlleGleich(DictValues(perspektiven_order, res.scores))
        /\ Ergab("ordnungsmomente") =>
              LET res == ergebnis.res
              IN /\ 0 <= res.kohaerenz /\ res.kohaerenz <= SCALE
                 /\ res.kohaerenz = SCALE
                      => AlleGleich(DictValues(ordnungs_order, res.scores))
        /\ Ergab("komplette_analyse") =>
              LET res == ergebnis.res
              IN /\ 0 <= res.perspektiven_balance /\ res.perspektiven_balance <= SCALE
                 /\ 0 <= res.ordnungsmomente_kohaerenz /\ res.ordnungsmomente_kohaerenz <= SCALE
                 /\ res.perspektiven_balance = SCALE
                      => AlleGleich(<<res.normativ_score, res.strategisch_score,
                                      res.operativ_score>>)
                 /\ res.ordnungsmomente_kohaerenz = SCALE
                      => AlleGleich(<<res.kultur_score, res.strukturen_score,
                                      res.prozesse_score, res.technologien_score>>)

\* the order-element analysis of the largest spread, scores 7, 7, 0, 0: the
\* coherence is 0
C19_Witness ==
    /\ Ergab("ordnungsmomente")
    /\ RatingsInNullBisSieben
    /\ ergebnis.res.scores["kultur"] = 7 * SCALE
    /\ ergebnis.res.scores["technologien"] = 0
    /\ ergebnis.res.kohaerenz = 0

\* C16: no engine operation modifies the caller's ratings mapping or the
\* two reference tables: no step changes a table, and from the first call
\* on, and in every step that delivers a result, the mapping stays as it is.
C16_AufrufeAendernNichts ==
    [][/\ theoretische_grundlagen' = theoretische_grundlagen
       /\ empirische_benchmarks' = empirische_benchmarks
       /\ (ergebnis # Keins \/ ergebnis' # ergebnis) => antworten' = antworten]_vars

\* after a call with a non-empty mapping that the caller had edited, the
\* tables are the loaded ones and the mapping still has the edited key
C16_Witness ==
    /\ ergebnis # Keins
    /\ ~ergebnis.res.raised
    /\ \E k \in geaendert : k \in DOMAIN antworten /\ k \in IndikatorKeys
    /\ theoretische_grundlagen = lade_theoretische_grundlagen
    /\ empirische_benchmarks = lade_empirische_benchmarks

\* what the invocation of thread state th returns when it runs alone on the
\* engine as constructed
Allein(th) ==
    CASE th.op = "komplette_analyse" ->
            durchfuehr_komplette_analyse(lade_empirische_benchmarks, th.antw)
      [] th.op = "management_perspektiven" ->
            analysiere_management_perspektiven(lade_empirische_benchmarks, th.antw)
      [] th.op = "ordnungsmomente" ->
            analysiere_ordnungsmomente(lade_empirische_benchmarks, th.antw)
      [] th.op = "entwicklungsperspektiven" -> analysiere_entwicklungsperspektiven(th.antw)
      [] th.op = "systemische_eigenschaften" ->
            analysiere_systemische_eigenschaften(lade_empirische_benchmarks, th.antw)
      [] th.op = "vergleich" ->
            vergleiche_mit_benchmarks(lade_empirische_benchmarks, EmptyDict, th.key, th.wert)

\* C15: concurrent invocations of the aggregators, the comparator and the
\* full analysis on one engine are safe: under every interleaving a
\* finished invocation has returned what it returns alone for its
\* arguments, and the engine's tables are the ones it was constructed with.
C15_NebenlaeufigWieAllein ==
    /\ \A t \in Threads :
          threads[t].fertig =>
              /\ ~threads[t].res.raised
              /\ threads[t].res = Allein(threads[t])
    /\ theoretische_grundlagen = lade_theoretische_grundlagen
    /\ empirische_benchmarks = lade_empirische_benchmarks

\* two full analyses of different mappings have both returned, each
\* interleaved with steps of another invocation
C15_Witness ==
    \E t, u \in Threads :
        /\ threads[t].fertig /\ threads[u].fertig
        /\ threads[t].op = "komplette_analyse" /\ threads[u].op = "komplette_analyse"
        /\ threads[t].antw # threads[u].antw
        /\ threads[t].verschraenkt /\ threads[u].verschraenkt
        /\ threads[t].res # threads[u].res

\* C18: the reset discards the stored result wholesale: the reset keeps
\* the engine and no result, and after the re-initialisation that follows
\* it the session's analyse_ergebnis is None, every indicator is at its
\* default 4 and the engine instance is the one from before the reset.
C18_ResetVerwirftErgebnis ==
    [][/\ lauf' = "rerun" =>
             /\ "st_galler_analyzer" \in DOMAIN session'
             /\ session'["st_galler_analyzer"] = session["st_galler_analyzer"]
             /\ "analyse_ergebnis" \notin DOMAIN session'
       /\ (lauf = "rerun" /\ lauf' = "bereit") =>
             /\ session'["analyse_ergebnis"] = NoneWert
             /\ \A k \in IndikatorKeys : session'[k] = IntWert(4)
             /\ session'["st_galler_analyzer"] = session["st_galler_analyzer"]
             /\ instanzen' = instanzen]_vars

\* the last engine call was a full analysis of ratings that were not all
\* at the default, its record was stored, and now the session holds no
\* result and the changed rating is 4 again: a reset and its rerun happened
C18_Witness ==
    /\ lauf = "bereit"
    /\ ergebnis.op = "komplette_analyse"
    /\ ergebnis.res.normativ_score # 4 * SCALE
    /\ session["analyse_ergebnis"] = NoneWert
    /\ session["wertekongruenz"] = IntWert(4)
    /\ session["st_galler_analyzer"] = AnalyzerWert(1)

\* C20: in the application the nine systemic indicators never leave their
\* default 4, and every full-analysis record stored in the session has
\* environment sensitivity, adaptability and resilience equal to 4.
C20_SystemischBleibtVier ==
    /\ \A k \in SystemischKeys \cap DOMAIN session : session[k] = IntWert(4)
    /\ ("analyse_ergebnis" \in DOMAIN session
        /\ session["analyse_ergebnis"].typ = "StGallerAnalyseErgebnis") =>
          LET r == session["analyse_ergebnis"].val
          IN /\ ~r.raised
             /\ r.umwelt_sensitivitaet = 4 * SCALE
             /\ r.anpassungs_faehigkeit = 4 * SCALE
             /\ r.widerstands_faehigkeit = 4 * SCALE

\* a stored full-analysis record of a session in which submitted slider
\* changes moved two other families away from the default
C20_Witness ==
    /\ "analyse_ergebnis" \in DOMAIN session
    /\ session["analyse_ergebnis"].typ = "StGallerAnalyseErgebnis"
    /\ session["analyse_ergebnis"].val.normativ_score # 4 * SCALE
    /\ session["analyse_ergebnis"].val.technologien_score # 4 * SCALE
    /\ session["analyse_ergebnis"].val.umwelt_sensitivitaet = 4 * SCALE

\* the session holds the key analyse_ergebnis
HatErgebnis(sess) == "analyse_ergebnis" \in DOMAIN sess

\* C21: the stored full-analysis result changes only through the
\* full-analysis action, which replaces it by the record freshly computed
\* from the session's ratings, or through the reset, which removes it (the
\* rerun then stores None); moving a slider or submitting a form leaves it
\* as it is.
C21_ErgebnisNurDurchAnalyseOderReset ==
    [][/\ (HatErgebnis(session) /\ HatErgebnis(session')
           /\ session'["analyse_ergebnis"] # session["analyse_ergebnis"]) =>
             /\ ergebnis'.op = "komplette_analyse"
             /\ session'["analyse_ergebnis"] = ErgebnisWert(ergebnis'.res)
             /\ ergebnis'.res = durchfuehr_komplette_analyse(lade_empirische_benchmarks,
                                                             SessionInts(session))
       /\ (HatErgebnis(session) /\ ~HatErgebnis(session')) =>
             lauf = "bereit" /\ lauf' = "rerun"
       /\ (~HatErgebnis(session) /\ HatErgebnis(session')) =>
             lauf = "rerun" /\ session'["analyse_ergebnis"] = NoneWert
       /\ (regler' # regler /\ lauf' = "bereit" /\ lauf = "bereit") =>
             session'["analyse_ergebnis"] = session["analyse_ergebnis"]
       /\ (ergebnis'.op \in AggregatorOps /\ lauf' = "bereit" /\ lauf = "bereit") =>
             session'["analyse_ergebnis"] = session["analyse_ergebnis"]]_vars

\* a stored record that is out of date: it was computed with the normative
\* ratings at the default, a form has since delivered a changed rating
C21_Witness ==
    /\ lauf = "bereit"
    /\ session["analyse_ergebnis"].typ = "StGallerAnalyseErgebnis"
    /\ session["analyse_ergebnis"].val.normativ_score = 4 * SCALE
    /\ session["wertekongruenz"] = IntWert(RatingMax)
    /\ ergebnis.op = "management_perspektiven"

\* the recommendation that belongs to an order element
OrdnungsEmpfehlung ==
    [kultur |-> empfehlung_kultur, strukturen |-> empfehlung_strukturen,
     prozesse |-> empfehlung_prozesse, technologien |-> empfehlung_technologien]

\* C22: whenever a full-analysis result is displayed, the recommendation
\* list holds exactly one of the four order-element recommendations, the
\* one of the first element in declaration order with the minimal score;
\* it is the element analysiere_ordnungsmomente reports as weakest for the
\* ratings of the analysis, also when all four scores are equal.
C22_GenauEineOrdnungsEmpfehlung ==
    LET anzeige == angezeigte_empfehlungen(session)
    IN anzeige.angezeigt =>
        LET e == session["analyse_ergebnis"].val
            liste == anzeige.liste
            sc == [kultur |-> e.kultur_score, strukturen |-> e.strukturen_score,
                   prozesse |-> e.prozesse_score, technologien |-> e.technologien_score]
            treffer == {i \in 1..Len(liste) :
                           \E o \in DOMAIN OrdnungsEmpfehlung : liste[i] = OrdnungsEmpfehlung[o]}
        IN /\ Cardinality(treffer) = 1
           /\ \A i \in treffer :
                  liste[i] = OrdnungsEmpfehlung[ErsterMit(ordnungs_order, sc,
                                                          MinWert(ordnungs_order, sc))]
           /\ (ergebnis.op = "komplette_analyse"
               /\ session["analyse_ergebnis"] = ErgebnisWert(ergebnis.res)) =>
                 \A i \in treffer :
                     liste[i] = OrdnungsEmpfehlung[
                         analysiere_ordnungsmomente(lade_empirische_benchmarks,
                                                    antworten).schwaechstes_ordnungselement]

\* a displayed result in which culture, structures and processes tie for
\* the minimum below technologies: the culture recommendation is shown
C22_Witness ==
    /\ angezeigte_empfehlungen(session).angezeigt
    /\ session["analyse_ergebnis"].val.kultur_score = session["analyse_ergebnis"].val.prozesse_score
    /\ session["analyse_ergebnis"].val.kultur_score < session["analyse_ergebnis"].val.technologien_score
    /\ \E i \in 1..Len(angezeigte_empfehlungen(session).liste) :
           angezeigte_empfehlungen(session).liste[i] = empfehlung_kultur

\* the 13 dimension and systemic scores of a full-analysis record
DreizehnScores(e) ==
    <<e.normativ_score, e.strategisch_score, e.operativ_score,
      e.kultur_score, e.strukturen_score, e.prozesse_score, e.technologien_score,
      e.reflexions_faehigkeit, e.innovations_faehigkeit, e.transformations_faehigkeit,
      e.umwelt_sensitivitaet, e.anpassungs_faehigkeit, e.widerstands_faehigkeit>>

\* C23: in the application every full analysis runs on a mapping that has
\* all 42 indicator keys with integer values in 1..7, and a stored record
\* has all 13 dimension and systemic scores in [1, 7]; whenever the script
\* waits for the user the session holds all 42 ratings in 1..7.
C23_AlleIndikatorenEinsBisSieben ==
    /\ lauf = "bereit" =>
          \A k \in IndikatorKeys :
              /\ k \in DOMAIN session
              /\ session[k].typ = "int"
              /\ session[k].val \in 1..7
    /\ ergebnis.op = "komplette_analyse" =>
          /\ Cardinality(IndikatorKeys) = 42
          /\ IndikatorKeys \subseteq DOMAIN antworten
          /\ \A k \in IndikatorKeys : antworten[k] \in 1..7
    /\ (HatErgebnis(session) /\ session["analyse_ergebnis"].typ = "StGallerAnalyseErgebnis") =>
          LET e == session["analyse_ergebnis"].val
          IN /\ ~e.raised
             /\ \A i \in 1..13 : Fix(1) <= DreizehnScores(e)[i] /\ DreizehnScores(e)[i] <= Fix(7)

\* a full analysis that has just run on 42 ratings of which one is 1 and
\* another is 7, its record stored
C23_Witness ==
    /\ ergebnis.op = "komplette_analyse"
    /\ HatErgebnis(session)
    /\ session["analyse_ergebnis"] = ErgebnisWert(ergebnis.res)
    /\ DOMAIN antworten = IndikatorKeys
    /\ \E j, k \in IndikatorKeys : antworten[j] = 1 /\ antworten[k] = 7

\* the permutations of the set S
Bijektionen(S) == {f \in [S -> S] : \A a, b \in S : f[a] = f[b] => a = b}

\* the mapping antw with the ratings of the groups exchanged: the i-th
\* indicator of group g gets the rating of the i-th indicator of group pi[g]
Tauschen(antw, gruppen, pi) ==
    LET quelle(k) ==
            LET g == GruppeVon(gruppen, k)
                i == CHOOSE i \in 1..Len(gruppen[g]) : gruppen[g][i] = k
            IN gruppen[pi[g]][i]
    IN [k \in (DOMAIN antw \ GruppenKeys(gruppen))
              \cup {j \in GruppenKeys(gruppen) : quelle(j) \in DOMAIN antw} |->
           IF k \in GruppenKeys(gruppen) THEN antw[quelle(k)] ELSE antw[k]]

\* C24 as stated, refuted: under every exchange of the ratings of the
\* perspectives (order elements) the balance (coherence) is unchanged and
\* the dominant perspective (weakest and strongest element) is the key
\* that received the ratings of the previously selected one.
C24_AuswahlFolgtDerPermutation ==
    /\ Ergab("management_perspektiven") =>
          \A pi \in Bijektionen(DOMAIN PerspektivenGruppen) :
              LET r2 == analysiere_management_perspektiven(
                            empirische_benchmarks, Tauschen(antworten, PerspektivenGruppen, pi))
              IN /\ r2.balance = ergebnis.res.balance
                 /\ pi[r2.dominante_perspektive] = ergebnis.res.dominante_perspektive
    /\ Ergab("ordnungsmomente") =>
          \A pi \in Bijektionen(DOMAIN OrdnungsGruppen) :
              LET r2 == analysiere_ordnungsmomente(
                            empirische_benchmarks, Tauschen(antworten, OrdnungsGruppen, pi))
              IN /\ r2.kohaerenz = ergebnis.res.kohaerenz
                 /\ pi[r2.schwaechstes_ordnungselement] = ergebnis.res.schwaechstes_ordnungselement
                 /\ pi[r2.staerkstes_ordnungselement] = ergebnis.res.staerkstes_ordnungselement

\* the value v is taken by exactly one key of sc
Eindeutig(sc, v) == Cardinality({k \in DOMAIN sc : sc[k] = v}) = 1

\* C24, amended: under every exchange of the ratings of the perspectives
\* (order elements) the scores are exchanged with them and the balance
\* (coherence) is unchanged; the selected key is the first in declaration
\* order among the keys that now hold the extremal score, so its score is
\* the score of the previously selected key, and it is the key that
\* received the ratings of the previously selected one whenever the
\* extremal score is held by one key only.
C24_IndexSymmetrischAuswahlErsterExtremer ==
    /\ Ergab("management_perspektiven") =>
          \A pi \in Bijektionen(DOMAIN PerspektivenGruppen) :
              LET res == ergebnis.res
                  r2 == analysiere_management_perspektiven(
                            empirische_benchmarks, Tauschen(antworten, PerspektivenGruppen, pi))
                  mx == res.scores[res.dominante_perspektive]
              IN /\ ~r2.raised
                 /\ \A g \in DOMAIN PerspektivenGruppen : r2.scores[g] = res.scores[pi[g]]
                 /\ r2.balance = res.balance
                 /\ r2.dominante_perspektive = ErsterMit(perspektiven_order, r2.scores, mx)
                 /\ Eindeutig(res.scores, mx)
                      => pi[r2.dominante_perspektive] = res.dominante_perspektive
    /\ Ergab("ordnungsmomente") =>
          \A pi \in Bijektionen(DOMAIN OrdnungsGruppen) :
              LET res == ergebnis.res
                  r2 == analysiere_ordnungsmomente(
                            empirische_benchmarks, Tauschen(antworten, OrdnungsGruppen, pi))
                  mn == res.scores[res.schwaechstes_ordnungselement]
                  mx == res.scores[res.staerkstes_ordnungselement]
              IN /\ ~r2.raised
                 /\ \A g \in DOMAIN OrdnungsGruppen : r2.scores[g] = res.scores[pi[g]]
                 /\ r2.kohaerenz = res.kohaerenz
                 /\ r2.schwaechstes_ordnungselement = ErsterMit(ordnungs_order, r2.scores, mn)
                 /\ r2.staerkstes_ordnungselement = ErsterMit(ordnungs_order, r2.scores, mx)
                 /\ Eindeutig(res.scores, mn)
                      => pi[r2.schwaechstes_ordnungselement] = res.schwaechstes_ordnungselement
                 /\ Eindeutig(res.scores, mx)
                      => pi[r2.staerkstes_ordnungselement] = res.staerkstes_ordnungselement

\* a management analysis of three pairwise different perspective scores,
\* the operative one the largest, so that exchanges move the dominant key
C24_Witness ==
    /\ Ergab("management_perspektiven")
    /\ ergebnis.res.scores["normativ"] < ergebnis.res.scores["strategisch"]
    /\ ergebnis.res.scores["strategisch"] < ergebnis.res.scores["operativ"]
    /\ ergebnis.res.dominante_perspektive = "operativ"
    /\ ergebnis.res.balance < SCALE
    /\ antworten \in Gruppenmappings

====
